---- MODULE Spec2Model ----
(***************************************************************************)
(* A model of xyconfig (src/config.go, src/value.go): the global registry  *)
(* configMap, the Config nodes with their entries and hooks, Get, Set,     *)
(* AddHook, ReadMap and GetConfig; and of the readers and watchers of the  *)
(* revision of config.go that src/config_test.go tests                     *)
(* (src/benchmarks/config_bench_test.go, from line 573): ReadJSON, ReadINI, *)
(* ReadENV, ReadBytes, ReadFile, ReadS3, LoadEnv, UnWatch, CloseWatcher.   *)
(*                                                                         *)
(* A Go string is a sequence of one-character strings: "a.b" is            *)
(* <<"a", ".", "b">> and "" is <<>>.  A *Config is the index of the node   *)
(* in heap (its address).                                                  *)
(***************************************************************************)
EXTENDS Integers, Sequences, FiniteSets, TLC

VARIABLES
    heap,       \* the Config nodes allocated so far: heap[id] is the node *id
    configMap,  \* the registry: name -> node
    last,       \* the last call of the sequential program and what it returned
    got,        \* the GetConfig calls of the program: <<name, node returned, step>>
    fault,      \* how the sequential program ended: "no" while it runs, "hung"
                \* blocked on a lock for ever, "panic" stopped by a run-time panic
    steps,      \* the number of calls made
    pc,         \* where each goroutine is in its GetConfig call
    tname,      \* the name each goroutine asks for
    tcfg,       \* the node each goroutine found or constructed
    fs,         \* the files: path -> content
    dirs,       \* the directories that exist
    watchers,   \* the fsnotify watchers created so far, each with its task
    timers,     \* the time.Timers created so far, each with its callback
    stack,      \* the Get and Set calls each goroutine is inside, innermost last
    res         \* what the Get or Set call of each goroutine returned

vars == <<heap, configMap, last, got, fault, steps, pc, tname, tcfg, fs, dirs, watchers, timers,
          stack, res>>

seqVars == <<last, got, fault, steps>>

lockVars == <<stack, res>>

thrVars == <<pc, tname, tcfg, lockVars>>

srcVars == <<fs, dirs, watchers, timers>>

(***************************************************************************)
(* Bounds of the model                                                     *)
(***************************************************************************)
MaxOps == 4

MaxTreeOps == 3

NumThreads == 3

(***************************************************************************)
(* Strings                                                                 *)
(***************************************************************************)
Dot == <<".">>

sA == <<"a">>

sB == <<"b">>

sAB == <<"a", ".", "b">>

sABA == <<"a", ".", "b", ".", "a">>

sR == <<"r">>

sRA == <<"r", ".", "a">>

sEmpty == <<>>

RECURSIVE IndexDot(_, _)
IndexDot(s, i) ==
    IF i > Len(s) THEN 0
    ELSE IF s[i] = "." THEN i
    ELSE IndexDot(s, i + 1)

\* the key never split
CutNever(s) == [before |-> s, after |-> <<>>, found |-> FALSE]

\* strings.Cut(key, ".")
Cut(s) ==
    LET i == IndexDot(s, 1)
    IN  IF i = 0
        THEN [before |-> s, after |-> <<>>, found |-> FALSE]
        ELSE [before |-> SubSeq(s, 1, i - 1),
              after  |-> SubSeq(s, i + 1, Len(s)),
              found  |-> TRUE]

\* a + "." + b
Join(a, b) == a \o Dot \o b

\* strings.HasPrefix(s, p)
HasPrefix(s, p) == Len(p) <= Len(s) /\ SubSeq(s, 1, Len(p)) = p

(***************************************************************************)
(* Values                                                                  *)
(***************************************************************************)
Nil == [kind |-> "nil", v |-> 0]

IntP(i) == [kind |-> "int", v |-> i]

CfgP(id) == [kind |-> "config", v |-> id]

\* a []any payload, i naming its elements
SeqP(i) == [kind |-> "seq", v |-> i]

\* Value{value: p, strict: s}
Value(p, s) == [value |-> p, strict |-> s]

\* Value{}
ZeroValue == Value(Nil, FALSE)

\* the dynamic types Go cannot compare: slices and maps
Uncomparable == {"seq", "map"}

\* Go's == on two interface values panics: same dynamic type, and it is
\* uncomparable
IfacePanics(p, q) == p.kind = q.kind /\ p.kind \in Uncomparable

\* Go's == on two interface values: same dynamic type and same value
IfaceEq(p, q) == p.kind = q.kind /\ p.v = q.v

\* Value.AsConfig
AsConfig(v) ==
    IF v.value.kind = "config"
    THEN [c |-> v.value.v, ok |-> TRUE]
    ELSE [c |-> 0, ok |-> FALSE]

(***************************************************************************)
(* Maps                                                                    *)
(***************************************************************************)
EmptyMap == <<>>

MapPut(m, k, v) == [x \in (DOMAIN m) \cup {k} |-> IF x = k THEN v ELSE m[x]]


(***************************************************************************)
(* Config nodes and the registry                                           *)
(***************************************************************************)
\* &Config{config: make(map), hook: make(map), timerWatchers: make(map)} with
\* its name set; watcher is nil (0)
NewConfig(nm) ==
    [name |-> nm, config |-> EmptyMap, hook |-> EmptyMap,
     watcher |-> 0, timerWatchers |-> EmptyMap, isWatch |-> TRUE]

Digit == <<"1", "2", "3", "4", "5", "6", "7", "8", "9", "A", "B", "C", "D", "E", "F", "G">>

\* fmt.Sprint(cfg): a text that holds the address of the node's lock, so it is
\* different for every node
Sprint(id) == <<"&", Digit[id]>>

\* the lookup always misses
LookupMiss(cm, nm) == 0

\* the read-locked lookup of GetConfig: the node registered under nm, 0 if none
Lookup(cm, nm) == IF nm \in DOMAIN cm THEN cm[nm] ELSE 0

\* the write-locked store of GetConfig: configMap[name] = cfg
Register(cm, nm, id) == MapPut(cm, nm, id)

\* the name GetConfig gives the node it constructs
NodeName(nm, id) == IF nm = sEmpty THEN Sprint(id) ELSE nm

\* GetConfig(nm) run without interruption on the state st = [heap, configMap]
GetConfig(st, nm) ==
    LET c == Lookup(st.configMap, nm)
    IN  IF c # 0
        THEN [heap |-> st.heap, configMap |-> st.configMap, ret |-> c]
        ELSE LET id  == Len(st.heap) + 1
                 nm2 == NodeName(nm, id)
             IN  [heap      |-> Append(st.heap, NewConfig(nm2)),
                  configMap |-> Register(st.configMap, nm2, id),
                  ret       |-> id]

(***************************************************************************)
(* Get                                                                     *)
(***************************************************************************)
\* v, ok = c.config[k]
MapGet(m, k) ==
    IF k \in DOMAIN m THEN [v |-> m[k], ok |-> TRUE]
    ELSE [v |-> ZeroValue, ok |-> FALSE]

\* c.Get(key) by a goroutine that holds the write locks of the nodes in held:
\* blocked says the read lock of one of them is requested, which never returns
RECURSIVE Get(_, _, _, _)
Get(hp, c, key, held) ==
    IF c \in held
    THEN [v |-> ZeroValue, ok |-> FALSE, blocked |-> TRUE]
    ELSE LET cut == Cut(key)
             e   == MapGet(hp[c].config, cut.before)
             sub == AsConfig(e.v)
         IN  IF ~cut.found
             THEN [v |-> e.v, ok |-> e.ok, blocked |-> FALSE]
             ELSE IF sub.ok
                  THEN Get(hp, sub.c, cut.after, held)
                  ELSE [v |-> ZeroValue, ok |-> FALSE, blocked |-> FALSE]

(***************************************************************************)
(* Hook resolution                                                         *)
(***************************************************************************)
NoHook == "nil"

\* the condition of the loop body: the hook k matches key
Matches(key, k) == key = k \/ HasPrefix(key, k \o Dot)

\* the loop body for the entry (k, f), prefix and hook being st
HookStep(st, key, k, f) ==
    IF Matches(key, k) /\ Len(k) > Len(st.prefix)
    THEN [prefix |-> k, hook |-> f]
    ELSE st

\* the loop over c.hook, its entries enumerated in the order ord
RECURSIVE HookLoop(_, _, _, _)
HookLoop(hk, key, ord, st) ==
    IF ord = <<>> THEN st
    ELSE HookLoop(hk, key, Tail(ord), HookStep(st, key, Head(ord), hk[Head(ord)]))

\* every order in which a Go map with the keys S may be enumerated
RECURSIVE Orders(_)
Orders(S) ==
    IF S = {} THEN {<<>>}
    ELSE UNION {{<<x>> \o p : p \in Orders(S \ {x})} : x \in S}

\* the outcomes of the loop: one for each order of enumeration
FindHook(hk, key) ==
    {HookLoop(hk, key, ord, [prefix |-> sEmpty, hook |-> NoHook]) : ord \in Orders(DOMAIN hk)}

(***************************************************************************)
(* Set                                                                     *)
(***************************************************************************)
\* what a call leaves behind: the state, the value returned, the events handed to
\* hooks in the order of the calls, and how the call ended: "no" for a return
Outcome(hp, cm, ret, events, ft) ==
    [heap |-> hp, configMap |-> cm, ret |-> ret, events |-> events, fault |-> ft]

\* ok && old.value == value panics
SameValuePanics(old, ok, value) == ok /\ IfacePanics(old.value, value)

\* the test never true
SameValueNever(old, ok, value) == FALSE

\* ok && old.value == value
SameValue(old, ok, value) == ok /\ IfaceEq(old.value, value)

\* c.config[k] = v
Store(hp, c, k, v) == [hp EXCEPT ![c].config = MapPut(@, k, v)]

\* the assignment dropped
StoreLeafNot(hp, c, key, v) == hp

\* c.config[key] = Value{value: value, strict: strict}, for a key without a dot
StoreLeaf(hp, c, key, v) == Store(hp, c, key, v)

\* the parent's name left out
ChildNameBare(nm, before) == before

\* c.name + "." + before
ChildName(nm, before) == Join(nm, before)

\* c.config[before] = Value{value: GetConfig(c.name + "." + before), strict: strict}
Attach(st, c, before, strict) ==
    LET g == GetConfig(st, ChildName(st.heap[c].name, before))
    IN  [heap      |-> Store(g.heap, c, before, Value(CfgP(g.ret), strict)),
         configMap |-> g.configMap]

\* the two tests before the call of the child's Set: the entry is absent, the
\* entry is no *Config
EnsureChild(st, c, before, strict) ==
    LET s1 == IF before \notin DOMAIN st.heap[c].config
              THEN Attach(st, c, before, strict)
              ELSE [heap |-> st.heap, configMap |-> st.configMap]
    IN  IF ~AsConfig(s1.heap[c].config[before]).ok
        THEN Attach(s1, c, before, strict)
        ELSE s1

\* Event{Old: old, New: Value{value, strict}, Key: c.name + "." + key}, with the
\* node and the hook it is handed to
Event(hp, c, h, key, old, new) ==
    [c |-> c, pattern |-> h.prefix, hook |-> h.hook,
     Key |-> Join(hp[c].name, key), Old |-> old, New |-> new]

\* the end of Set, watched being the value the child's Set returned
Notify(r, c, key, old, new) ==
    IF r.fault # "no" THEN {r}
    ELSE IF r.ret THEN {[r EXCEPT !.ret = FALSE]}
    ELSE {IF h.hook # NoHook
          THEN [r EXCEPT !.ret = TRUE,
                         !.events = Append(@, Event(r.heap, c, h, key, old, new))]
          ELSE r : h \in FindHook(r.heap[c].hook, key)}

\* c.Set(key, value, strict) by a goroutine that holds the write locks of held
RECURSIVE Set(_, _, _, _, _, _)
Set(st, c, key, value, strict, held) ==
    LET g == Get(st.heap, c, key, held)
    IN  IF g.blocked
        THEN {Outcome(st.heap, st.configMap, FALSE, <<>>, "hung")}
        ELSE IF SameValuePanics(g.v, g.ok, value)
        THEN {Outcome(st.heap, st.configMap, FALSE, <<>>, "panic")}
        ELSE IF SameValue(g.v, g.ok, value)
        THEN {Outcome(st.heap, st.configMap, FALSE, <<>>, "no")}
        ELSE LET cut  == Cut(key)
                 new  == Value(value, strict)
                 subs == IF ~cut.found
                         THEN {Outcome(StoreLeaf(st.heap, c, key, new), st.configMap,
                                       FALSE, <<>>, "no")}
                         ELSE LET s2 == EnsureChild(st, c, cut.before, strict)
                              IN  Set(s2, AsConfig(s2.heap[c].config[cut.before]).c,
                                      cut.after, value, strict, held \cup {c})
             IN  UNION {Notify(r, c, key, g.v, new) : r \in subs}

(***************************************************************************)
(* AddHook, ReadMap                                                        *)
(***************************************************************************)
\* c.hook[key] = f
AddHook(hp, c, key, f) == [hp EXCEPT ![c].hook = MapPut(@, key, f)]

\* a Go map[string]any is a function from its keys to [kind, v]; a nested map
\* has kind "map" and the map as v
MapP(m) == [kind |-> "map", v |-> m]

RECURSIVE ReadMap(_, _, _, _)
RECURSIVE ReadLoop(_, _, _, _, _)

\* c.Set(k, p, strict) in ReadMap, after the calls that left r
ReadSet(r, c, k, p, strict) ==
    IF r.fault # "no" THEN {r}
    ELSE {Outcome(x.heap, x.configMap, FALSE, r.events \o x.events, x.fault) :
            x \in Set(r, c, k, p, strict, {})}

\* the body of the loop of ReadMap for the entry (k, val)
ReadEntry(r, c, k, val, strict) ==
    IF r.fault # "no" THEN {r}
    ELSE IF val.kind = "map"
    THEN LET g == GetConfig(r, Join(r.heap[c].name, k))
             s == Outcome(g.heap, g.configMap, FALSE, r.events, "no")
         IN  UNION {ReadSet(x, c, k, CfgP(g.ret), strict) :
                      x \in ReadMap(s, g.ret, val.v, strict)}
    ELSE ReadSet(r, c, k, val, strict)

\* the loop of ReadMap over the entries of m in the order ord, from the outcomes rs
ReadLoop(rs, c, m, ord, strict) ==
    IF ord = <<>> THEN rs
    ELSE ReadLoop(UNION {ReadEntry(r, c, Head(ord), m[Head(ord)], strict) : r \in rs},
                  c, m, Tail(ord), strict)

\* c.ReadMap(m, strict): one outcome for each order of enumeration of the maps
ReadMap(r, c, m, strict) ==
    UNION {ReadLoop({r}, c, m, ord, strict) : ord \in Orders(DOMAIN m)}

\* the sub-trees left as they are
ToMapFlat(hp, c) == [k \in DOMAIN hp[c].config |-> hp[c].config[k].value]

\* c.ToMap(): the entries of c, a sub-tree as the map of its entries
RECURSIVE ToMap(_, _)
ToMap(hp, c) ==
    [k \in DOMAIN hp[c].config |->
        IF AsConfig(hp[c].config[k]).ok
        THEN MapP(ToMap(hp, AsConfig(hp[c].config[k]).c))
        ELSE hp[c].config[k].value]

(***************************************************************************)
(* The lookup family                                                       *)
(***************************************************************************)
\* c.MustGet(key): the Value, or the exception it panics with; heap is the nodes
\* after the call
MustGet(hp, c, key) ==
    LET g == Get(hp, c, key, {})
    IN  IF ~g.ok
        THEN [v |-> ZeroValue, panic |-> "ConfigKeyError", heap |-> hp]
        ELSE [v |-> g.v, panic |-> "nil", heap |-> hp]

\* the default is stored under the key as well
GetDefaultStores(hp, c, key, def) ==
    LET g == Get(hp, c, key, {})
    IN  IF ~g.ok
        THEN [v |-> Value(def, TRUE), heap |-> Store(hp, c, key, Value(def, TRUE))]
        ELSE [v |-> g.v, heap |-> hp]

\* c.GetDefault(key, def); heap is the nodes after the call
GetDefault(hp, c, key, def) ==
    LET g == Get(hp, c, key, {})
    IN  IF ~g.ok
        THEN [v |-> Value(def, TRUE), heap |-> hp]
        ELSE [v |-> g.v, heap |-> hp]

(***************************************************************************)
(* Paths, formats and contents                                             *)
(***************************************************************************)
ExtJSON == <<".", "j", "s", "o", "n">>

ExtINI == <<".", "i", "n", "i">>

ExtENV == <<".", "e", "n", "v">>

UnknownFormat == 0

JSON == 1

INI == 2

ENV == 3

\* var extensions = map[string]Format{...}
extensions == (ExtJSON :> JSON) @@ (ExtINI :> INI) @@ (ExtENV :> ENV)

S3Prefix == <<"s", "3", ":", "/", "/">>

\* strings.HasSuffix(s, x)
HasSuffix(s, x) == Len(x) <= Len(s) /\ SubSeq(s, Len(s) - Len(x) + 1, Len(s)) = x

RECURSIVE IndexOf(_, _, _)
IndexOf(s, ch, i) ==
    IF i > Len(s) THEN 0
    ELSE IF s[i] = ch THEN i
    ELSE IndexOf(s, ch, i + 1)

\* strings.Cut(s, ch)
CutAt(s, ch) ==
    LET i == IndexOf(s, ch, 1)
    IN  IF i = 0
        THEN [before |-> s, after |-> <<>>, found |-> FALSE]
        ELSE [before |-> SubSeq(s, 1, i - 1),
              after  |-> SubSeq(s, i + 1, Len(s)),
              found  |-> TRUE]

RECURSIVE LastIndexOf(_, _, _)
LastIndexOf(s, ch, i) ==
    IF i = 0 THEN 0
    ELSE IF s[i] = ch THEN i
    ELSE LastIndexOf(s, ch, i - 1)

\* filepath.Dir(p), for a relative path
Dir(p) ==
    LET i == LastIndexOf(p, "/", Len(p))
    IN  IF i = 0 THEN <<".">> ELSE SubSeq(p, 1, i - 1)

\* the loop over extensions in the order ord, fileFormat being format
RECURSIVE ExtLoop(_, _, _)
ExtLoop(name, ord, format) ==
    IF ord = <<>> THEN format
    ELSE ExtLoop(name, Tail(ord),
                 IF HasSuffix(name, Head(ord)) THEN extensions[Head(ord)] ELSE format)

\* fileFormat after the loop: one outcome for each order of enumeration
FileFormats(name) ==
    {ExtLoop(name, ord, UnknownFormat) : ord \in Orders(DOMAIN extensions)}

\* a string payload
StrP(str) == [kind |-> "string", v |-> str]

\* the content of a file, of an S3 object or of a []byte: syn is the syntax the
\* text is written in ("bad" for a text no parser accepts) and val the pairs
\* <<key, payload>> it says, in the order of the text
Content(syn, val) == [syn |-> syn, val |-> val]

\* the map that json.Unmarshal and godotenv.Unmarshal make of the pairs kvs,
\* the last pair of a key being the one kept
AsMap(kvs) ==
    [k \in {kvs[i][1] : i \in DOMAIN kvs} |->
       kvs[CHOOSE i \in DOMAIN kvs :
             kvs[i][1] = k /\ \A j \in DOMAIN kvs : kvs[j][1] = k => j <= i][2]]

\* json.Unmarshal, ini.Load, godotenv.Unmarshal return no error: the text is
\* written in the syntax that the parser reads
Parses(b, syn) == b.syn = syn

(***************************************************************************)
(* The readers.  A reader takes and returns the state of the program as a  *)
(* record: the variables heap, configMap, fs, dirs, watchers and timers,   *)
(* the events handed to hooks so far, fault, the error err returned and    *)
(* the kinds io of input and output done; one record for each order of     *)
(* enumeration of the maps.                                                *)
(***************************************************************************)
\* the Outcome that the calls of Set continue from
Out(S) == Outcome(S.heap, S.configMap, FALSE, S.events, S.fault)

\* S after the calls of Set that left the Outcome r
Merge(S, r) ==
    [S EXCEPT !.heap = r.heap, !.configMap = r.configMap,
              !.events = r.events, !.fault = r.fault]

\* return err
Fail(S, err) == [S EXCEPT !.err = err]

\* c.Set(k, v, strict) for the pairs <<k, v>> of kvs in their order, from the
\* outcomes rs
RECURSIVE SetAll(_, _, _, _)
SetAll(rs, c, kvs, strict) ==
    IF kvs = <<>> THEN rs
    ELSE SetAll(UNION {ReadSet(r, c, Head(kvs)[1], Head(kvs)[2], strict) : r \in rs},
                c, Tail(kvs), strict)

\* the parse error dropped: the map is read whatever the parser said
ReadJSONAnyway(S, c, b) == {Merge(S, r) : r \in ReadMap(Out(S), c, AsMap(b.val), TRUE)}

\* c.ReadJSON(b)
ReadJSON(S, c, b) ==
    IF ~Parses(b, "json") THEN {Fail(S, "ValueError")}
    ELSE {Merge(S, r) : r \in ReadMap(Out(S), c, AsMap(b.val), TRUE)}

\* c.ReadINI(b)
ReadINI(S, c, b) ==
    IF ~Parses(b, "ini") THEN {Fail(S, "ValueError")}
    ELSE {Merge(S, r) : r \in SetAll({Out(S)}, c, b.val, FALSE)}

\* the pairs of the map m in the order ord of its keys
Pairs(m, ord) == [i \in 1..Len(ord) |-> <<ord[i], m[ord[i]]>>]

\* c.ReadENV(b)
ReadENV(S, c, b) ==
    IF ~Parses(b, "env") THEN {Fail(S, "ConfigError")}
    ELSE {Merge(S, r) :
            r \in UNION {SetAll({Out(S)}, c, Pairs(AsMap(b.val), ord), FALSE) :
                           ord \in Orders(DOMAIN AsMap(b.val))}}

\* c.ReadBytes(format, b)
ReadBytes(S, c, format, b) ==
    CASE format = JSON -> ReadJSON(S, c, b)
      [] format = INI  -> ReadINI(S, c, b)
      [] format = ENV  -> ReadENV(S, c, b)
      [] OTHER         -> {Fail(S, "FormatError")}

(***************************************************************************)
(* The file watcher.  A watcher of fsnotify is a record: the node c whose  *)
(* goroutine reads its Events, the paths added, closed, the queue of write *)
(* events not yet received, the position task of the goroutine and the     *)
(* name ev of the event it has received.  c.watcher is its index in        *)
(* watchers, 0 for nil.                                                    *)
(***************************************************************************)
\* fsnotify.NewWatcher() and the go statement of c.initWatcher()
NewWatcher(c) ==
    [c |-> c, paths |-> {}, closed |-> FALSE, queue |-> <<>>, task |-> "run",
     ev |-> <<>>]

\* c.initWatcher()
initWatcher(S, c) ==
    [S EXCEPT !.watchers = Append(@, NewWatcher(c)),
              !.heap[c].watcher = Len(S.watchers) + 1]

\* the call of watcher.Add left out
watchFileNoAdd(S, c, filename) ==
    LET s1 == IF S.heap[c].watcher = 0 THEN initWatcher(S, c) ELSE S
    IN  IF filename \notin DOMAIN s1.fs
        THEN [s1 EXCEPT !.dirs = @ \cup {Dir(filename)}, !.io = @ \cup {"mkdir"}]
        ELSE s1

\* c.watchFile(filename): the file made for watcher.Add is removed again, the
\* directory made for it stays
watchFile(S, c, filename) ==
    LET s1 == IF S.heap[c].watcher = 0 THEN initWatcher(S, c) ELSE S
        s2 == IF filename \notin DOMAIN s1.fs
              THEN [s1 EXCEPT !.dirs = @ \cup {Dir(filename)}, !.io = @ \cup {"mkdir"}]
              ELSE s1
    IN  [s2 EXCEPT !.watchers[s2.heap[c].watcher].paths = @ \cup {filename},
                   !.io = @ \cup {"watch"}]

\* the extension is looked at after the file is
ReadFileLate(S, c, filename, watch) ==
    UNION {LET s1 == IF watch THEN watchFile(S, c, filename) ELSE S
               s2 == [s1 EXCEPT !.io = @ \cup {"read"}]
           IN  IF filename \notin DOMAIN s2.fs
               THEN {Fail(s2, IF watch THEN "nil" ELSE "ConfigError")}
               ELSE ReadBytes(s2, c, format, s2.fs[filename]) :
           format \in FileFormats(filename)}

\* c.ReadFile(filename, watch)
ReadFile(S, c, filename, watch) ==
    UNION {IF format = UnknownFormat THEN {Fail(S, "FormatError")}
           ELSE LET s1 == IF watch THEN watchFile(S, c, filename) ELSE S
                    s2 == [s1 EXCEPT !.io = @ \cup {"read"}]
                IN  IF filename \notin DOMAIN s2.fs
                    THEN {Fail(s2, IF watch THEN "nil" ELSE "ConfigError")}
                    ELSE ReadBytes(s2, c, format, s2.fs[filename]) :
           format \in FileFormats(filename)}

(***************************************************************************)
(* The timers.  A time.Timer of time.AfterFunc is a record: the node c and *)
(* the source src its callback reads, the duration d, its state ("pending" *)
(* until it expires or is stopped, "running" while its callback runs) and  *)
(* what the callback has fetched.  c.timerWatchers maps a source to the    *)
(* index of its timer in timers.                                           *)
(***************************************************************************)
sENV == <<"e", "n", "v">>

\* nothing fetched
NoFetch == [kind |-> "none", b |-> Content("bad", <<>>)]

\* c.timerWatchers[src] = time.AfterFunc(d, ...)
AddTimer(S, c, src, d) ==
    [S EXCEPT !.timers = Append(@, [c |-> c, src |-> src, d |-> d,
                                    state |-> "pending", fetched |-> NoFetch]),
              !.heap[c].timerWatchers = MapPut(@, src, Len(S.timers) + 1)]

\* if d != 0 { c.timerWatchers[src] = time.AfterFunc(d, ...) }
Renew(S, c, src, d) == IF d # 0 THEN AddTimer(S, c, src, d) ELSE S

\* the error ReadS3 returns before it asks for a session: "nil" for none
S3Address(url, format) ==
    IF format = UnknownFormat THEN "FormatError"
    ELSE IF ~HasPrefix(url, S3Prefix) THEN "FormatError"
    ELSE IF ~CutAt(SubSeq(url, Len(S3Prefix) + 1, Len(url)), "/").found THEN "FormatError"
    ELSE "nil"

\* ReadS3 from the call of session.NewSessionWithOptions to the call of
\* downloader.Download, fetched being what the two return: kind "nosession",
\* "fail" or "ok", and for "ok" the content b of the object
S3Fetch(S, fetched) ==
    IF fetched.kind = "nosession" THEN Fail(S, "ConfigError")
    ELSE [S EXCEPT !.io = @ \cup {"fetch"}]

\* ReadS3 after the call of downloader.Download
S3Finish(S, c, url, d, format, fetched) ==
    LET s1 == Renew(S, c, url, d)
    IN  IF fetched.kind = "fail"
        THEN {Fail(s1, IF d = 0 THEN "ConfigError" ELSE "nil")}
        ELSE ReadBytes(s1, c, format, fetched.b)

\* c.ReadS3(url, d)
ReadS3(S, c, url, d, fetched) ==
    UNION {IF S3Address(url, format) # "nil" THEN {Fail(S, S3Address(url, format))}
           ELSE IF S3Fetch(S, fetched).err # "nil" THEN {S3Fetch(S, fetched)}
           ELSE S3Finish(S3Fetch(S, fetched), c, url, d, format, fetched) :
           format \in FileFormats(url)}

\* the loop of LoadEnv over envs, the strings of os.Environ()
RECURSIVE EnvLoop(_, _, _)
EnvLoop(S, c, envs) ==
    IF envs = <<>> \/ S.fault # "no" THEN {S}
    ELSE LET cut == CutAt(Head(envs), "=")
         IN  IF ~cut.found THEN {Fail(S, "FormatError")}
             ELSE UNION {EnvLoop(Merge(S, r), c, Tail(envs)) :
                           r \in ReadSet(Out(S), c, cut.before, StrP(cut.after), FALSE)}

\* c.LoadEnv(d)
LoadEnv(S, c, d, envs) ==
    {IF r.err = "nil" /\ r.fault = "no" THEN Renew(r, c, sENV, d) ELSE r :
       r \in EnvLoop(S, c, envs)}

\* w.Stop() for the timer t
Stop(ts, t) ==
    [ts EXCEPT ![t].state = IF @ = "pending" THEN "stopped" ELSE @]

\* the map m without the key k
MapDel(m, k) == [x \in (DOMAIN m) \ {k} |-> m[x]]

\* c.UnWatch(filename); watcher.Remove returns an error for a path that the
\* watcher does not watch
UnWatch(S, c, filename) ==
    LET tw == S.heap[c].timerWatchers
        w  == S.heap[c].watcher
    IN  IF filename \in DOMAIN tw
        THEN [S EXCEPT !.timers = Stop(@, tw[filename]),
                       !.heap[c].timerWatchers = MapDel(@, filename)]
        ELSE IF w # 0
        THEN IF filename \in S.watchers[w].paths
             THEN [S EXCEPT !.watchers[w].paths = @ \ {filename}]
             ELSE Fail(S, "ConfigError")
        ELSE S

\* the timers of the indices ids stopped
RECURSIVE StopAll(_, _)
StopAll(ts, ids) ==
    IF ids = {} THEN ts
    ELSE LET t == CHOOSE x \in ids : TRUE
         IN  StopAll(Stop(ts, t), ids \ {t})

\* c.CloseWatcher(); watcher.Close() closes Events and Errors, the events not
\* yet received are never delivered
CloseWatcher(S, c) ==
    LET w  == S.heap[c].watcher
        tw == S.heap[c].timerWatchers
        s1 == IF w # 0
              THEN [S EXCEPT !.watchers[w].closed = TRUE,
                             !.watchers[w].paths = {},
                             !.watchers[w].queue = <<>>,
                             !.heap[c].watcher = 0]
              ELSE S
    IN  [s1 EXCEPT !.timers = StopAll(@, {tw[k] : k \in DOMAIN tw}),
                   !.heap[c].timerWatchers = EmptyMap]

(***************************************************************************)
(* The sequential program: one goroutine calling the API                   *)
(***************************************************************************)
Threads == 1..NumThreads

\* the node GetConfig("r") returns: the root of the program's tree
Root == Lookup(configMap, sR)

Nodes == 1..Len(heap)

NoCall ==
    [op |-> "none", c |-> 0, name |-> sEmpty, key |-> sEmpty, value |-> Nil,
     strict |-> FALSE, old |-> ZeroValue, oldok |-> FALSE,
     first |-> ZeroValue, firstok |-> FALSE,
     ret |-> FALSE, node |-> 0, events |-> <<>>, plain |-> FALSE,
     err |-> "nil", io |-> {}, arg |-> <<>>, watch |-> FALSE, d |-> 0,
     out |-> ZeroValue, tick |-> FALSE, fresh |-> FALSE]

\* the node c has no entry, and no name of the registry is c.name + "." + ...
FreshNode(c) ==
    /\ heap[c].config = EmptyMap
    /\ \A nm \in DOMAIN configMap : ~HasPrefix(nm, heap[c].name \o Dot)

Empty == [heap |-> <<>>, configMap |-> EmptyMap]

\* no Get or Set call of the goroutine has returned
NoResult == [op |-> "none", v |-> ZeroValue, ok |-> FALSE]

\* the package's variables once the program has made its root: GetConfig("r")
Init ==
    /\ heap = GetConfig(Empty, sR).heap
    /\ configMap = GetConfig(Empty, sR).configMap
    /\ last = NoCall
    /\ got = <<>>
    /\ fault = "no"
    /\ steps = 0
    /\ pc = [t \in Threads |-> "done"]
    /\ tname = [t \in Threads |-> sEmpty]
    /\ tcfg = [t \in Threads |-> 0]
    /\ fs = EmptyMap
    /\ dirs = {}
    /\ watchers = <<>>
    /\ timers = <<>>
    /\ stack = [t \in Threads |-> <<>>]
    /\ res = [t \in Threads |-> NoResult]

\* the program makes its next call: it has made fewer than max, and still runs
CanCall(max) == steps < max /\ fault = "no"

\* GetConfig(nm) for a name of Ns
DoGetConfig(max, Ns) ==
    /\ CanCall(max)
    /\ \E nm \in Ns :
        LET g == GetConfig([heap |-> heap, configMap |-> configMap], nm)
        IN  /\ heap' = g.heap
            /\ configMap' = g.configMap
            /\ last' = [NoCall EXCEPT !.op = "GetConfig", !.name = nm, !.node = g.ret,
                                      !.plain = last.plain]
            /\ got' = Append(got, <<nm, g.ret, steps + 1>>)
            /\ steps' = steps + 1
            /\ UNCHANGED <<fault, thrVars, srcVars>>

\* c.Set(key, value, strict) for a node of Cs, a key of Ks, a payload of Ps and a
\* flag of Ss; last keeps what c.Get(key) and c.config[before] were before the
\* call, and in plain whether a Set call so far had a key without a dot
DoSet(max, Cs, Ks, Ps, Ss) ==
    /\ CanCall(max)
    /\ \E c \in Cs, key \in Ks, value \in Ps, strict \in Ss :
        \E r \in Set([heap |-> heap, configMap |-> configMap], c, key, value, strict, {}) :
            LET g == Get(heap, c, key, {})
                e == MapGet(heap[c].config, Cut(key).before)
            IN  /\ heap' = r.heap
                /\ configMap' = r.configMap
                /\ last' = [NoCall EXCEPT !.op = "Set", !.c = c, !.key = key,
                                          !.value = value, !.strict = strict,
                                          !.old = g.v, !.oldok = g.ok,
                                          !.first = e.v, !.firstok = e.ok,
                                          !.ret = r.ret, !.events = r.events,
                                          !.plain = last.plain \/ ~Cut(key).found,
                                          !.fresh = FreshNode(c)]
                /\ fault' = r.fault
                /\ steps' = steps + 1
                /\ UNCHANGED <<got, thrVars, srcVars>>

\* c.AddHook(key, f) for a node of Cs and a pattern of Ks
DoAddHook(max, Cs, Ks) ==
    /\ CanCall(max)
    /\ \E c \in Cs, key \in Ks, f \in {"f"} :
        /\ heap' = AddHook(heap, c, key, f)
        /\ last' = [NoCall EXCEPT !.op = "AddHook", !.c = c, !.key = key,
                                  !.plain = last.plain]
        /\ steps' = steps + 1
        /\ UNCHANGED <<configMap, got, fault, thrVars, srcVars>>

\* c.ReadMap(m, strict) for a node of Cs, a map of Ms and a flag of Ss
DoReadMap(max, Cs, Ms, Ss) ==
    /\ CanCall(max)
    /\ \E c \in Cs, m \in Ms, strict \in Ss :
        \E r \in ReadMap(Outcome(heap, configMap, FALSE, <<>>, "no"), c, m, strict) :
            /\ heap' = r.heap
            /\ configMap' = r.configMap
            /\ last' = [NoCall EXCEPT !.op = "ReadMap", !.c = c, !.strict = strict,
                                      !.events = r.events, !.plain = last.plain,
                                      !.arg = m, !.fresh = FreshNode(c)]
            /\ fault' = r.fault
            /\ steps' = steps + 1
            /\ UNCHANGED <<got, thrVars, srcVars>>

(***************************************************************************)
(* The readers, the watchers and the timers as steps of the program        *)
(***************************************************************************)
\* the state that a reader starts from
Cur ==
    [heap |-> heap, configMap |-> configMap, fs |-> fs, dirs |-> dirs,
     watchers |-> watchers, timers |-> timers,
     events |-> <<>>, fault |-> "no", err |-> "nil", io |-> {}]

\* what last keeps of the call op that left S
Called(op, c, arg, S) ==
    [NoCall EXCEPT !.op = op, !.c = c, !.arg = arg, !.err = S.err, !.io = S.io,
                   !.events = S.events, !.plain = last.plain, !.tick = ~last.tick]

\* the step to S, last becoming l
Commit(S, l) ==
    /\ heap' = S.heap
    /\ configMap' = S.configMap
    /\ fs' = S.fs
    /\ dirs' = S.dirs
    /\ watchers' = S.watchers
    /\ timers' = S.timers
    /\ fault' = S.fault
    /\ last' = l
    /\ UNCHANGED <<got, thrVars>>

\* c.ReadBytes(format, b)
DoReadBytes(max, Cs, Fs, Bs) ==
    /\ CanCall(max)
    /\ \E c \in Cs, format \in Fs, b \in Bs :
        \E S \in ReadBytes(Cur, c, format, b) :
            /\ Commit(S, [Called("ReadBytes", c, <<>>, S) EXCEPT !.d = format, !.value = b])
            /\ steps' = steps + 1

\* c.ReadFile(filename, watch)
DoReadFile(max, Cs, Ns, Ws) ==
    /\ CanCall(max)
    /\ \E c \in Cs, filename \in Ns, watch \in Ws :
        \E S \in ReadFile(Cur, c, filename, watch) :
            /\ Commit(S, [Called("ReadFile", c, filename, S) EXCEPT !.watch = watch])
            /\ steps' = steps + 1

\* c.ReadS3(url, d), the session and the download returning fetched
DoReadS3(max, Cs, Us, Ds, Fs) ==
    /\ CanCall(max)
    /\ \E c \in Cs, url \in Us, d \in Ds, fetched \in Fs :
        \E S \in ReadS3(Cur, c, url, d, fetched) :
            /\ Commit(S, [Called("ReadS3", c, url, S) EXCEPT !.d = d, !.value = fetched])
            /\ steps' = steps + 1

\* c.LoadEnv(d), os.Environ() returning envs
DoLoadEnv(max, Cs, Ds, Es) ==
    /\ CanCall(max)
    /\ \E c \in Cs, d \in Ds, envs \in Es :
        \E S \in LoadEnv(Cur, c, d, envs) :
            /\ Commit(S, [Called("LoadEnv", c, sENV, S) EXCEPT !.d = d])
            /\ steps' = steps + 1

\* the node c watches the source id: a timer or its watcher is registered for it
Watched(S, c, id) ==
    \/ id \in DOMAIN S.heap[c].timerWatchers
    \/ S.heap[c].watcher # 0 /\ id \in S.watchers[S.heap[c].watcher].paths

\* c.UnWatch(filename), last.ret keeping whether c watched it before the call
DoUnWatch(max, Cs, Ns) ==
    /\ CanCall(max)
    /\ \E c \in Cs, filename \in Ns :
        LET S == UnWatch(Cur, c, filename)
        IN  /\ Commit(S, [Called("UnWatch", c, filename, S) EXCEPT
                              !.ret = Watched(Cur, c, filename)])
            /\ steps' = steps + 1

\* c.CloseWatcher()
DoCloseWatcher(max, Cs) ==
    /\ CanCall(max)
    /\ \E c \in Cs :
        LET S == CloseWatcher(Cur, c)
        IN  /\ Commit(S, Called("CloseWatcher", c, <<>>, S))
            /\ steps' = steps + 1

\* c.MustGet(key), the exception it panics with kept in last.err
DoMustGet(max, Cs, Ks) ==
    /\ CanCall(max)
    /\ \E c \in Cs, key \in Ks :
        LET r == MustGet(heap, c, key)
            S == [Cur EXCEPT !.heap = r.heap, !.err = r.panic]
        IN  /\ Commit(S, [Called("MustGet", c, <<>>, S) EXCEPT !.key = key, !.out = r.v])
            /\ steps' = steps + 1

\* c.GetDefault(key, def)
DoGetDefault(max, Cs, Ks, Ps) ==
    /\ CanCall(max)
    /\ \E c \in Cs, key \in Ks, def \in Ps :
        LET r == GetDefault(heap, c, key, def)
            S == [Cur EXCEPT !.heap = r.heap]
        IN  /\ Commit(S, [Called("GetDefault", c, <<>>, S) EXCEPT
                              !.key = key, !.value = def, !.out = r.v])
            /\ steps' = steps + 1

\* the indices of the watchers that watch the path p
Watching(p) == {w \in DOMAIN watchers : ~watchers[w].closed /\ p \in watchers[w].paths}

\* another process writes b to the file p of a directory that exists: every
\* watcher of p is sent a write event
WriteFile(max, Ns, Bs) ==
    /\ CanCall(max)
    /\ \E p \in Ns, b \in Bs :
        /\ Dir(p) \in dirs \cup {<<".">>}
        /\ fs' = MapPut(fs, p, b)
        /\ watchers' = [w \in DOMAIN watchers |->
                          IF w \in Watching(p)
                          THEN [watchers[w] EXCEPT !.queue = Append(@, p)]
                          ELSE watchers[w]]
        /\ last' = [NoCall EXCEPT !.op = "WriteFile", !.arg = p, !.value = b,
                                  !.plain = last.plain, !.tick = ~last.tick]
        /\ steps' = steps + 1
        /\ UNCHANGED <<heap, configMap, got, fault, thrVars, dirs, timers>>

\* the goroutine of the watcher w receives an event from watcher.Events
WatcherRecv(w) ==
    /\ fault = "no"
    /\ watchers[w].task = "run"
    /\ ~watchers[w].closed
    /\ watchers[w].queue # <<>>
    /\ watchers' = [watchers EXCEPT ![w].task = "reload",
                                    ![w].ev = Head(watchers[w].queue),
                                    ![w].queue = Tail(@)]
    /\ last' = [NoCall EXCEPT !.op = "Recv", !.c = watchers[w].c, !.node = w,
                              !.arg = Head(watchers[w].queue),
                              !.plain = last.plain, !.tick = ~last.tick]
    /\ UNCHANGED <<heap, configMap, got, fault, steps, thrVars, fs, dirs, timers>>

\* the goroutine of the watcher w: c.ReadFile(event.Name, false), the error
\* logged
WatcherReload(w) ==
    /\ fault = "no"
    /\ watchers[w].task = "reload"
    /\ \E S \in ReadFile(Cur, watchers[w].c, watchers[w].ev, FALSE) :
        Commit([S EXCEPT !.watchers[w].task = "run", !.watchers[w].ev = <<>>],
               [Called("Reload", watchers[w].c, watchers[w].ev, S) EXCEPT !.node = w])
    /\ UNCHANGED steps

\* the goroutine of the watcher w finds watcher.Events closed, and returns
WatcherExit(w) ==
    /\ fault = "no"
    /\ watchers[w].task = "run"
    /\ watchers[w].closed
    /\ watchers' = [watchers EXCEPT ![w].task = "exit"]
    /\ last' = [NoCall EXCEPT !.op = "Exit", !.c = watchers[w].c, !.node = w,
                              !.plain = last.plain, !.tick = ~last.tick]
    /\ UNCHANGED <<heap, configMap, got, fault, steps, thrVars, fs, dirs, timers>>

\* the step of the watcher w
WatcherTask(w) == WatcherRecv(w) \/ WatcherReload(w) \/ WatcherExit(w)

\* the timer t expires and its callback starts: c.LoadEnv(d) as far as the end
\* of its loop, os.Environ() returning envs, or c.ReadS3(url, d) as far as the
\* download, returning fetched
TimerFire(t, maxt, Es, Fs) ==
    /\ fault = "no"
    /\ timers[t].state = "pending"
    /\ Len(timers) < maxt
    /\ LET c == timers[t].c
       IN  \E S \in IF timers[t].src = sENV
                    THEN UNION {{[r EXCEPT !.timers[t].fetched.kind =
                                               IF r.err = "nil" THEN "ok" ELSE "error"] :
                                   r \in EnvLoop(Cur, c, envs)} : envs \in Es}
                    ELSE {[S3Fetch(Cur, fetched) EXCEPT !.timers[t].fetched = fetched] :
                            fetched \in Fs} :
             Commit([S EXCEPT !.timers[t].state = "running"],
                    [Called("Expire", c, timers[t].src, S) EXCEPT !.node = t])
    /\ UNCHANGED steps

\* the callback of the timer t goes on to its end: the next timer is registered,
\* and ReadS3 reads what it has fetched
TimerRenew(t) ==
    /\ fault = "no"
    /\ timers[t].state = "running"
    /\ LET c   == timers[t].c
           src == timers[t].src
           d   == timers[t].d
           f   == timers[t].fetched
       IN  \E S \in IF src = sENV
                    THEN {IF f.kind = "ok" THEN Renew(Cur, c, src, d)
                                           ELSE Fail(Cur, "FormatError")}
                    ELSE IF f.kind = "nosession" THEN {Fail(Cur, "ConfigError")}
                    ELSE UNION {S3Finish(Cur, c, src, d, format, f) :
                                  format \in FileFormats(src)} :
             Commit([S EXCEPT !.timers[t].state = "done"],
                    [Called("Callback", c, src, S) EXCEPT !.node = t, !.d = d])
    /\ UNCHANGED steps

(***************************************************************************)
(* SpecRead: the root reads bytes, files and S3 objects and looks keys up, *)
(* while another process writes the files                                  *)
(***************************************************************************)
MaxReadOps == 2

MaxTimers == 3

pJSON == <<"d", "/", "f", ".", "j", "s", "o", "n">>

pOther == <<"f", ".", "x">>

uGood == <<"s", "3", ":", "/", "/", "b", "/", "k", ".", "j", "s", "o", "n">>

uNoKey == <<"s", "3", ":", "/", "/", "k", ".", "j", "s", "o", "n">>

uNoPrefix == <<"b", "/", "k", ".", "j", "s", "o", "n">>

uNoExt == <<"s", "3", ":", "/", "/", "b", "/", "k">>

Formats == {UnknownFormat, JSON, INI, ENV}

\* {"a": 1}, {"a": [..]}, {"a": {"b": 2}}
JSONContents ==
    {Content("json", <<<<sA, IntP(1)>>>>), Content("json", <<<<sA, SeqP(1)>>>>),
     Content("json", <<<<sA, MapP(sB :> IntP(2))>>>>)}

\* [a] b = b
INIContent == Content("ini", <<<<sAB, StrP(sB)>>>>)

\* b=a
ENVContent == Content("env", <<<<sB, StrP(sA)>>>>)

\* a text that no parser accepts, saying nothing
BadContent == Content("bad", <<>>)

Contents == JSONContents \cup {INIContent, ENVContent, BadContent}

\* what the session and the download of ReadS3 return
Fetches ==
    {[kind |-> "nosession", b |-> BadContent], [kind |-> "fail", b |-> BadContent]}
        \cup {[kind |-> "ok", b |-> b] : b \in {Content("json", <<<<sA, IntP(1)>>>>), BadContent}}

\* os.Environ(): a=b, and a string without "="
Environs == {<<<<"a", "=", "b">>>>, <<<<"b", "=", "a">>, <<"a">>>>}

ReadKeys == {sA, sB, sAB}

NextRead ==
    \/ DoReadBytes(MaxReadOps, {Root}, Formats, Contents)
    \/ DoReadFile(MaxReadOps, {Root}, {pJSON, pOther}, BOOLEAN)
    \/ DoReadS3(MaxReadOps, {Root}, {uGood, uNoKey, uNoPrefix, uNoExt}, {0, 1}, Fetches)
    \/ DoMustGet(MaxReadOps, {Root}, ReadKeys)
    \/ DoGetDefault(MaxReadOps, {Root}, ReadKeys, {IntP(2)})
    \/ WriteFile(MaxReadOps, {pJSON, pOther}, Contents)
    \/ \E w \in DOMAIN watchers : WatcherTask(w)
    \/ \E t \in DOMAIN timers : TimerFire(t, MaxTimers, Environs, Fetches) \/ TimerRenew(t)

SpecRead == Init /\ [][NextRead]_vars

(***************************************************************************)
(* SpecWatch: the root reads bytes and a file that it watches, unwatches   *)
(* it, closes its watcher and hooks a key, while another process writes    *)
(* the file                                                                *)
(***************************************************************************)
MaxWatchOps == 5

\* {"a": 1}, {"a": [1]}, {"a": [2]}, and a text that no parser accepts
WatchContents ==
    {Content("json", <<<<sA, IntP(1)>>>>), Content("json", <<<<sA, SeqP(1)>>>>),
     Content("json", <<<<sA, SeqP(2)>>>>), BadContent}

NextWatch ==
    \/ DoReadBytes(MaxWatchOps, {Root}, Formats, {Content("json", <<<<sB, IntP(2)>>>>), BadContent})
    \/ DoReadFile(MaxWatchOps, {Root}, {pJSON}, BOOLEAN)
    \/ DoUnWatch(MaxWatchOps, {Root}, {pJSON})
    \/ DoCloseWatcher(MaxWatchOps, {Root})
    \/ DoAddHook(MaxWatchOps, {Root}, {sA})
    \/ WriteFile(MaxWatchOps, {pJSON}, WatchContents)
    \/ \E w \in DOMAIN watchers : WatcherTask(w)

SpecWatch == Init /\ [][NextWatch]_vars

(***************************************************************************)
(* SpecPoll: the root loads the environment and reads an S3 object, polls  *)
(* them, reads a file that it watches, unwatches the sources and closes    *)
(* its watcher, while the timers expire and another process writes the     *)
(* file                                                                    *)
(***************************************************************************)
MaxPollOps == 3

\* os.Environ() when a timer expires: a=b, b=a
PollEnvirons == {<<<<"a", "=", "b">>>>, <<<<"b", "=", "a">>>>}

\* what the session and the download return: no session, no object, {"a": 1},
\* {"a": [1]}
PollFetches ==
    {[kind |-> "nosession", b |-> BadContent], [kind |-> "fail", b |-> BadContent]}
        \cup {[kind |-> "ok", b |-> b] :
                b \in {Content("json", <<<<sA, IntP(1)>>>>),
                       Content("json", <<<<sA, SeqP(1)>>>>)}}

NextPoll ==
    \/ DoLoadEnv(MaxPollOps, {Root}, {0, 1}, Environs)
    \/ DoReadS3(MaxPollOps, {Root}, {uGood}, {0, 1}, PollFetches)
    \/ DoReadFile(MaxPollOps, {Root}, {pJSON}, {TRUE})
    \/ DoUnWatch(MaxPollOps, {Root}, {sENV, uGood})
    \/ DoCloseWatcher(MaxPollOps, {Root})
    \/ WriteFile(MaxPollOps, {pJSON}, {Content("json", <<<<sA, IntP(1)>>>>)})
    \/ \E w \in DOMAIN watchers : WatcherTask(w)
    \/ \E t \in DOMAIN timers : TimerFire(t, MaxTimers, PollEnvirons, PollFetches) \/ TimerRenew(t)

SpecPoll == Init /\ [][NextPoll]_vars

(***************************************************************************)
(* SpecNoWatch: NoWatch and ReadFile(filename, true) of src/config.go, the *)
(* second by a goroutine of its own, step by step: it reads the file, then *)
(* in watchFile looks at c.isWatch, then at c.watcher, makes the watcher   *)
(* if there is none, and adds the file to c.watcher.  pc[1] is where the   *)
(* goroutine is, tname[1] the file and tcfg[1] the watcher it has found.   *)
(***************************************************************************)
MaxNoWatchOps == 4

pPlain == <<"f", ".", "j", "s", "o", "n">>

\* the step to S of a goroutine, last becoming l
CommitStep(S, l) ==
    /\ heap' = S.heap
    /\ configMap' = S.configMap
    /\ fs' = S.fs
    /\ dirs' = S.dirs
    /\ watchers' = S.watchers
    /\ timers' = S.timers
    /\ fault' = S.fault
    /\ last' = l
    /\ UNCHANGED got

\* c.NoWatch(): c.watcher is closed, and stays the watcher of c
NoWatch(S, c) ==
    LET w  == S.heap[c].watcher
        s1 == [S EXCEPT !.heap[c].isWatch = FALSE]
    IN  IF w # 0
        THEN [s1 EXCEPT !.watchers[w].closed = TRUE,
                        !.watchers[w].paths = {},
                        !.watchers[w].queue = <<>>]
        ELSE s1

\* c.ReadFile(filename, watch) of src/config.go as far as the call of watchFile
ReadFileOld(S, c, filename) ==
    UNION {IF format \notin {JSON, INI} THEN {Fail(S, "ExtensionError")}
           ELSE LET s1 == [S EXCEPT !.io = @ \cup {"read"}]
                IN  IF filename \notin DOMAIN s1.fs THEN {Fail(s1, "BaseError")}
                    ELSE IF format = JSON THEN ReadJSON(s1, c, s1.fs[filename])
                    ELSE ReadINI(s1, c, s1.fs[filename]) :
           format \in FileFormats(filename)}

\* c.NoWatch()
DoNoWatch(max, Cs) ==
    /\ CanCall(max)
    /\ \E c \in Cs :
        LET S == NoWatch(Cur, c)
        IN  /\ CommitStep(S, Called("NoWatch", c, <<>>, S))
            /\ steps' = steps + 1
            /\ UNCHANGED thrVars

\* the goroutine calls c.ReadFile(filename, true): the file is read
WFRead(max, Cs, Ns) ==
    /\ CanCall(max)
    /\ pc[1] = "done"
    /\ \E c \in Cs, filename \in Ns :
        \E S \in ReadFileOld(Cur, c, filename) :
            /\ CommitStep(S, [Called("ReadFile", c, filename, S) EXCEPT !.watch = TRUE])
            /\ pc' = [pc EXCEPT ![1] = IF S.err = "nil" /\ S.fault = "no"
                                       THEN "isWatch" ELSE "done"]
            /\ tname' = [tname EXCEPT ![1] = filename]
            /\ tcfg' = [tcfg EXCEPT ![1] = c]
            /\ UNCHANGED lockVars
            /\ steps' = steps + 1

\* watchFile: if !c.isWatch { return nil }
WFIsWatch ==
    /\ fault = "no"
    /\ pc[1] = "isWatch"
    /\ pc' = [pc EXCEPT ![1] = IF heap[tcfg[1]].isWatch THEN "watcher" ELSE "done"]
    /\ last' = [NoCall EXCEPT !.op = "isWatch", !.c = tcfg[1],
                              !.plain = last.plain, !.tick = ~last.tick]
    /\ UNCHANGED <<heap, configMap, got, fault, steps, tname, tcfg, lockVars, srcVars>>

\* watchFile: var watcher = c.watcher; if watcher == nil { c.initWatcher() }
WFWatcher ==
    /\ fault = "no"
    /\ pc[1] = "watcher"
    /\ pc' = [pc EXCEPT ![1] = IF heap[tcfg[1]].watcher = 0 THEN "init" ELSE "add"]
    /\ last' = [NoCall EXCEPT !.op = "watcher", !.c = tcfg[1],
                              !.plain = last.plain, !.tick = ~last.tick]
    /\ UNCHANGED <<heap, configMap, got, fault, steps, tname, tcfg, lockVars, srcVars>>

\* watchFile: c.initWatcher()
WFInit ==
    /\ fault = "no"
    /\ pc[1] = "init"
    /\ LET S == initWatcher(Cur, tcfg[1])
       IN  CommitStep(S, Called("initWatcher", tcfg[1], tname[1], S))
    /\ pc' = [pc EXCEPT ![1] = "add"]
    /\ UNCHANGED <<steps, tname, tcfg, lockVars>>

\* watchFile: c.watcher.Add(filename), an error on a watcher that is closed
WFAdd ==
    /\ fault = "no"
    /\ pc[1] = "add"
    /\ LET c == tcfg[1]
           w == heap[c].watcher
           S == IF watchers[w].closed THEN Fail(Cur, "BaseError")
                ELSE [Cur EXCEPT !.watchers[w].paths = @ \cup {tname[1]},
                                 !.io = @ \cup {"watch"}]
       IN  CommitStep(S, Called("Add", c, tname[1], S))
    /\ pc' = [pc EXCEPT ![1] = "done"]
    /\ UNCHANGED <<steps, tname, tcfg, lockVars>>

\* the goroutine of the watcher w: c.ReadFile(event.Name, false) of src/config.go
WatcherReloadOld(w) ==
    /\ fault = "no"
    /\ watchers[w].task = "reload"
    /\ \E S \in ReadFileOld(Cur, watchers[w].c, watchers[w].ev) :
        CommitStep([S EXCEPT !.watchers[w].task = "run", !.watchers[w].ev = <<>>],
                   [Called("Reload", watchers[w].c, watchers[w].ev, S) EXCEPT !.node = w])
    /\ UNCHANGED <<steps, thrVars>>

NextNoWatch ==
    \/ DoNoWatch(MaxNoWatchOps, {Root})
    \/ WFRead(MaxNoWatchOps, {Root}, {pPlain})
    \/ WFIsWatch
    \/ WFWatcher
    \/ WFInit
    \/ WFAdd
    \/ WriteFile(MaxNoWatchOps, {pPlain}, {Content("json", <<<<sA, IntP(1)>>>>), BadContent})
    \/ \E w \in DOMAIN watchers : WatcherRecv(w) \/ WatcherReloadOld(w) \/ WatcherExit(w)

SpecNoWatch == Init /\ [][NextNoWatch]_vars

(***************************************************************************)
(* SpecLock: goroutines calling Get and Set on the root concurrently, one   *)
(* step for each acquisition and each release of a node's lock.  stack[t]   *)
(* is the calls goroutine t is inside, the innermost last; a frame is the   *)
(* receiver c, the arguments, the position at in the method and its local   *)
(* variables old, ok and watched.  A goroutine holds the read lock of c     *)
(* from the RLock of a Get on c to its deferred RUnlock, and the write lock *)
(* from the Lock of a Set on c to its deferred Unlock.                      *)
(***************************************************************************)
Frame(fn, c, key, value, strict, at) ==
    [fn |-> fn, c |-> c, key |-> key, value |-> value, strict |-> strict, at |-> at,
     old |-> ZeroValue, ok |-> FALSE, watched |-> FALSE]

\* c.Get(key), before c.lock.RLock()
GetFrame(c, key) == Frame("Get", c, key, Nil, FALSE, "rlock")

\* c.Get(key) called with the lock of c taken
CallSetLocked(c, key, value, strict) ==
    <<Frame("Set", c, key, value, strict, "hook"), GetFrame(c, key)>>

\* c.Set(key, value, strict), inside its first statement: var old, ok = c.Get(key)
CallSet(c, key, value, strict) ==
    <<Frame("Set", c, key, value, strict, "get"), GetFrame(c, key)>>

\* GetConfig(nm), before globalLock.RLockFunc
GetConfigFrame(nm) == Frame("GetConfig", 0, nm, Nil, FALSE, "grlock")

\* c.ReadMap(m, strict), before an entry of its loop: value is the entries that
\* the loop has not reached yet
ReadMapFrame(c, m, strict) == Frame("ReadMap", c, sEmpty, MapP(m), strict, "loop")

Top(t) == stack[t][Len(stack[t])]

Callers(t) == SubSeq(stack[t], 1, Len(stack[t]) - 1)

ReplaceTop(stk, f) == [stk EXCEPT ![Len(stk)] = f]

\* the goroutines between c.lock.RLock() and the deferred c.lock.RUnlock()
RHeld(c) ==
    {t \in Threads : \E i \in 1..Len(stack[t]) :
        /\ stack[t][i].fn = "Get" /\ stack[t][i].c = c
        /\ stack[t][i].at \in {"wait", "runlock"}}

\* the goroutines between c.lock.Lock() and the deferred c.lock.Unlock()
WHeld(c) ==
    {t \in Threads : \E i \in 1..Len(stack[t]) :
        /\ stack[t][i].fn = "Set" /\ stack[t][i].c = c
        /\ stack[t][i].at \in {"attach", "wait", "unlock", "hook"}}

\* the goroutines that have called c.lock.Lock() and wait in it
WPending(c) ==
    {t \in Threads : \E i \in 1..Len(stack[t]) :
        /\ stack[t][i].fn \in {"Set", "AddHook"} /\ stack[t][i].c = c
        /\ stack[t][i].at = "locking"}

\* the goroutines inside the function of globalLock.RLockFunc
GRHeld ==
    {t \in Threads : \E i \in 1..Len(stack[t]) :
        stack[t][i].fn = "GetConfig" /\ stack[t][i].at = "grheld"}

\* the goroutines inside the function of globalLock.WLockFunc
GWHeld ==
    {t \in Threads : \E i \in 1..Len(stack[t]) :
        stack[t][i].fn = "GetConfig" /\ stack[t][i].at = "gwheld"}

\* the goroutines that have called globalLock.WLockFunc and wait in it
GWPending ==
    {t \in Threads : \E i \in 1..Len(stack[t]) :
        stack[t][i].fn = "GetConfig" /\ stack[t][i].at = "gwlocking"}

\* c.lock.RLock() returns: no goroutine holds the write lock or waits for it
CanRLock(c) == WHeld(c) = {} /\ WPending(c) = {}

\* the write lock taken whoever holds the lock
CanLockAlways(c) == TRUE

\* c.lock.Lock() returns: no goroutine holds the lock
CanLock(c) == WHeld(c) = {} /\ RHeld(c) = {}

Returned(stk, r, ft) == [stack |-> stk, res |-> r, fault |-> ft]

\* Set returns ret to its caller: the program, the loop of ReadMap, which goes
\* on to its next entry, or the parent's
\* watched = c.config[before].MustConfig().Set(after, value, strict)
ReturnSet(stk, ret) ==
    IF stk = <<>>
    THEN Returned(stk, [op |-> "Set", v |-> ZeroValue, ok |-> ret], "no")
    ELSE IF stk[Len(stk)].fn = "ReadMap"
    THEN Returned(ReplaceTop(stk, [stk[Len(stk)] EXCEPT
                                      !.at = "loop", !.value = MapP(MapDel(@.v, stk[Len(stk)].key))]),
                  NoResult, "no")
    ELSE Returned(ReplaceTop(stk, [stk[Len(stk)] EXCEPT !.at = "unlock", !.watched = ret]),
                  NoResult, "no")

\* Get returns (v, ok) to its caller: the program, the parent's
\* return cfg.Get(after), or the first two statements of Set
ReturnGet(stk, v, ok) ==
    IF stk = <<>>
    THEN Returned(stk, [op |-> "Get", v |-> v, ok |-> ok], "no")
    ELSE LET f == stk[Len(stk)]
         IN  IF f.fn = "Get"
             THEN Returned(ReplaceTop(stk, [f EXCEPT !.at = "runlock", !.old = v, !.ok = ok]),
                           NoResult, "no")
             ELSE IF SameValuePanics(v, ok, f.value)
             THEN Returned(stk, NoResult, "panic")
             ELSE IF SameValue(v, ok, f.value)
             THEN ReturnSet(SubSeq(stk, 1, Len(stk) - 1), FALSE)
             ELSE Returned(ReplaceTop(stk, [f EXCEPT !.at = "lock", !.old = v, !.ok = ok]),
                           NoResult, "no")

\* goroutine t makes its call on a node of Cs: the first is the reader and
\* calls Get(key), the others are writers and call Set(key, value, strict)
LockCall(t, Cs, Ks, Vs) ==
    /\ fault = "no"
    /\ stack[t] = <<>>
    /\ res[t] = NoResult
    /\ \E c \in Cs, key \in Ks :
        IF t = 1
        THEN stack' = [stack EXCEPT ![t] = <<GetFrame(c, key)>>]
        ELSE \E value \in Vs, strict \in BOOLEAN :
                stack' = [stack EXCEPT ![t] = CallSet(c, key, value, strict)]
    /\ UNCHANGED <<heap, configMap, res, pc, tname, tcfg, seqVars, srcVars>>

\* Get: c.lock.RLock() and the statements up to the call of cfg.Get(after) or
\* to the return
GetRLock(t) ==
    /\ fault = "no"
    /\ stack[t] # <<>>
    /\ Top(t).fn = "Get" /\ Top(t).at = "rlock"
    /\ CanRLock(Top(t).c)
    /\ LET f   == Top(t)
           cut == Cut(f.key)
           e   == MapGet(heap[f.c].config, cut.before)
           sub == AsConfig(e.v)
       IN  stack' = [stack EXCEPT ![t] =
               IF ~cut.found
               THEN ReplaceTop(@, [f EXCEPT !.at = "runlock", !.old = e.v, !.ok = e.ok])
               ELSE IF sub.ok
               THEN Append(ReplaceTop(@, [f EXCEPT !.at = "wait"]), GetFrame(sub.c, cut.after))
               ELSE ReplaceTop(@, [f EXCEPT !.at = "runlock"])]
    /\ UNCHANGED <<heap, configMap, res, pc, tname, tcfg, seqVars, srcVars>>

\* Get: the deferred c.lock.RUnlock(), and the return
GetRUnlock(t) ==
    /\ fault = "no"
    /\ stack[t] # <<>>
    /\ Top(t).fn = "Get" /\ Top(t).at = "runlock"
    /\ LET R == ReturnGet(Callers(t), Top(t).old, Top(t).ok)
       IN  /\ stack' = [stack EXCEPT ![t] = R.stack]
           /\ res' = [res EXCEPT ![t] = R.res]
           /\ fault' = R.fault
    /\ UNCHANGED <<heap, configMap, last, got, steps, pc, tname, tcfg, srcVars>>

\* GetConfig returns the node id to its caller: the program, the loop of
\* ReadMap, which goes on to cfg.ReadMap(t, strict), or the Set that stores
\* it as c.config[before] and calls its Set
CfgReturned(hp, stk, id) ==
    IF stk = <<>>
    THEN [heap |-> hp, stack |-> stk,
          res |-> [op |-> "GetConfig", v |-> Value(CfgP(id), FALSE), ok |-> TRUE]]
    ELSE LET f == stk[Len(stk)]
         IN  IF f.fn = "ReadMap"
             THEN [heap  |-> hp,
                   stack |-> Append(ReplaceTop(stk, [f EXCEPT !.at = "sub",
                                                               !.old = Value(CfgP(id), f.strict)]),
                                    ReadMapFrame(id, f.value.v[f.key].v, f.strict)),
                   res   |-> NoResult]
             ELSE [heap  |-> Store(hp, f.c, Cut(f.key).before, Value(CfgP(id), f.strict)),
                   stack |-> ReplaceTop(stk, [f EXCEPT !.at = "wait"])
                             \o CallSet(id, Cut(f.key).after, f.value, f.strict),
                   res   |-> NoResult]

\* GetConfig: globalLock.RLockFunc is entered
GetConfigRLock(t) ==
    /\ fault = "no"
    /\ stack[t] # <<>>
    /\ Top(t).fn = "GetConfig" /\ Top(t).at = "grlock"
    /\ GWHeld = {} /\ GWPending = {}
    /\ stack' = [stack EXCEPT ![t] = ReplaceTop(@, [Top(t) EXCEPT !.at = "grheld"])]
    /\ UNCHANGED <<heap, configMap, res, pc, tname, tcfg, seqVars, srcVars>>

\* GetConfig: the lookup, the end of globalLock.RLockFunc, and the return of the
\* node found or the construction of one
GetConfigRUnlock(t) ==
    /\ fault = "no"
    /\ stack[t] # <<>>
    /\ Top(t).fn = "GetConfig" /\ Top(t).at = "grheld"
    /\ LET c  == Lookup(configMap, Top(t).key)
           id == Len(heap) + 1
           R  == CfgReturned(heap, Callers(t), c)
       IN  IF c # 0
           THEN /\ heap' = R.heap
                /\ stack' = [stack EXCEPT ![t] = R.stack]
                /\ res' = [res EXCEPT ![t] = R.res]
           ELSE /\ heap' = Append(heap, NewConfig(NodeName(Top(t).key, id)))
                /\ stack' = [stack EXCEPT ![t] =
                       ReplaceTop(@, [Top(t) EXCEPT !.at = "gwlock", !.value = CfgP(id)])]
                /\ UNCHANGED res
    /\ UNCHANGED <<configMap, pc, tname, tcfg, seqVars, srcVars>>

\* GetConfig: globalLock.WLockFunc is entered
GetConfigWLock(t) ==
    /\ fault = "no"
    /\ stack[t] # <<>>
    /\ Top(t).fn = "GetConfig" /\ Top(t).at \in {"gwlock", "gwlocking"}
    /\ GRHeld = {} /\ GWHeld = {}
    /\ stack' = [stack EXCEPT ![t] = ReplaceTop(@, [Top(t) EXCEPT !.at = "gwheld"])]
    /\ UNCHANGED <<heap, configMap, res, pc, tname, tcfg, seqVars, srcVars>>

\* GetConfig: configMap[name] = cfg, the end of globalLock.WLockFunc, and the
\* return of the node constructed
GetConfigWUnlock(t) ==
    /\ fault = "no"
    /\ stack[t] # <<>>
    /\ Top(t).fn = "GetConfig" /\ Top(t).at = "gwheld"
    /\ LET id == Top(t).value.v
           R  == CfgReturned(heap, Callers(t), id)
       IN  /\ configMap' = Register(configMap, heap[id].name, id)
           /\ heap' = R.heap
           /\ stack' = [stack EXCEPT ![t] = R.stack]
           /\ res' = [res EXCEPT ![t] = R.res]
    /\ UNCHANGED <<pc, tname, tcfg, seqVars, srcVars>>

\* Set: c.lock.Lock() and the statements up to the call of GetConfig, to the
\* call of the child's Set or to the search of the hook; last is the last call
\* of the program that has taken the lock, with what the key held when it took
\* it
SetLock(t) ==
    /\ fault = "no"
    /\ stack[t] # <<>>
    /\ Top(t).fn = "Set" /\ Top(t).at \in {"lock", "locking"}
    /\ CanLock(Top(t).c)
    /\ LET f   == Top(t)
           cut == Cut(f.key)
           e   == MapGet(heap[f.c].config, cut.before)
       IN  IF ~cut.found
           THEN /\ heap' = StoreLeaf(heap, f.c, f.key, Value(f.value, f.strict))
                /\ stack' = [stack EXCEPT ![t] = ReplaceTop(@, [f EXCEPT !.at = "unlock"])]
           ELSE IF e.ok /\ AsConfig(e.v).ok
           THEN /\ stack' = [stack EXCEPT ![t] =
                       ReplaceTop(@, [f EXCEPT !.at = "wait"])
                       \o CallSet(AsConfig(e.v).c, cut.after, f.value, f.strict)]
                /\ UNCHANGED heap
           ELSE /\ stack' = [stack EXCEPT ![t] =
                       Append(ReplaceTop(@, [f EXCEPT !.at = "attach"]),
                              GetConfigFrame(ChildName(heap[f.c].name, cut.before)))]
                /\ UNCHANGED heap
    /\ UNCHANGED configMap
    /\ last' = IF Len(stack[t]) = 1
               THEN [NoCall EXCEPT !.op = "Lock", !.c = Top(t).c, !.key = Top(t).key,
                                   !.value = Top(t).value, !.strict = Top(t).strict,
                                   !.node = t, !.tick = ~last.tick,
                                   !.old = Get(heap, Top(t).c, Top(t).key, {}).v,
                                   !.oldok = Get(heap, Top(t).c, Top(t).key, {}).ok]
               ELSE last
    /\ UNCHANGED <<res, got, fault, steps, pc, tname, tcfg, srcVars>>

\* the hooks that call a method of the node they were added to: the method
\* that each calls; MustGet(key) begins with c.Get(key)
Callbacks == [fGet |-> "Get", fMustGet |-> "Get", fSet |-> "Set"]

\* the calls that the hook named h makes on c when it is handed the event e
CallBack(h, c, e) ==
    IF Callbacks[h] = "Get"
    THEN <<GetFrame(c, e.pattern)>>
    ELSE CallSet(c, e.pattern, e.Old.value, e.New.strict)

\* Set: the search of the hook and the call of a hook that calls back, the
\* lock of c held: the Set waits in it, at "hook"
SetCallHook(t) ==
    /\ fault = "no"
    /\ stack[t] # <<>>
    /\ Top(t).fn = "Set" /\ Top(t).at = "unlock"
    /\ LET f == Top(t)
       IN  \E r \in Notify(Outcome(heap, configMap, f.watched, <<>>, "no"), f.c, f.key,
                           f.old, Value(f.value, f.strict)) :
               /\ r.events # <<>>
               /\ r.events[1].hook \in DOMAIN Callbacks
               /\ stack' = [stack EXCEPT ![t] =
                      ReplaceTop(@, [f EXCEPT !.at = "hook"])
                      \o CallBack(r.events[1].hook, f.c, r.events[1])]
               /\ got' = got \o r.events
    /\ UNCHANGED <<heap, configMap, res, pc, tname, tcfg, last, fault, steps, srcVars>>

\* Set: the search of the hook and its call, the deferred c.lock.Unlock(), and
\* the return; got is the events handed to hooks, in the order of the calls
SetUnlock(t) ==
    /\ fault = "no"
    /\ stack[t] # <<>>
    /\ Top(t).fn = "Set" /\ Top(t).at = "unlock"
    /\ LET f == Top(t)
       IN  \E r \in Notify(Outcome(heap, configMap, f.watched, <<>>, "no"), f.c, f.key,
                           f.old, Value(f.value, f.strict)) :
               LET R == ReturnSet(Callers(t), r.ret)
               IN  /\ \A i \in DOMAIN r.events : r.events[i].hook \notin DOMAIN Callbacks
                   /\ stack' = [stack EXCEPT ![t] = R.stack]
                   /\ res' = [res EXCEPT ![t] = R.res]
                   /\ got' = got \o r.events
    /\ UNCHANGED <<heap, configMap, pc, tname, tcfg, last, fault, steps, srcVars>>

LockValues == {IntP(1), IntP(2)}

NextLock ==
    \E t \in Threads :
        \/ LockCall(t, {Root}, {sAB}, LockValues)
        \/ GetRLock(t)
        \/ GetRUnlock(t)
        \/ SetLock(t)
        \/ SetUnlock(t)
        \/ GetConfigRLock(t)
        \/ GetConfigRUnlock(t)
        \/ GetConfigWLock(t)
        \/ GetConfigWUnlock(t)

SpecLock == Init /\ [][NextLock]_vars

(***************************************************************************)
(* SpecRace: the goroutines of SpecLock, and a hook that the program adds   *)
(* to the root                                                             *)
(***************************************************************************)
\* c.AddHook(key, f): c.lock.Lock(), c.hook[key] = f, c.lock.Unlock()
LockAddHook(c, key, Fs) ==
    /\ fault = "no"
    /\ heap[c].hook = <<>>
    /\ CanLock(c)
    /\ \E f \in Fs : heap' = AddHook(heap, c, key, f)
    /\ UNCHANGED <<configMap, thrVars, seqVars, srcVars>>

NextRace ==
    \/ LockAddHook(Root, sAB, {"f"})
    \/ NextLock

SpecRace == Init /\ [][NextRace]_vars

(***************************************************************************)
(* SpecCall: the goroutines of SpecLock, and a hook on the root that calls  *)
(* Get, MustGet or Set on the root                                         *)
(***************************************************************************)
NextCall ==
    \/ LockAddHook(Root, sAB, DOMAIN Callbacks)
    \/ NextLock
    \/ \E t \in Threads : SetCallHook(t)

SpecCall == Init /\ [][NextCall]_vars

(***************************************************************************)
(* SpecScan: the goroutines of SpecLock, and goroutines that call ToMap on  *)
(* the root.  ToMap takes no lock: its loop over the entries runs from the  *)
(* step of the call to the step of the return, whatever the others do.      *)
(***************************************************************************)
\* c.ToMap(), inside its loop; old is the map that the loop makes of the entries
\* as they are at the call
ToMapFrame(hp, c) ==
    [Frame("ToMap", c, sEmpty, Nil, FALSE, "range") EXCEPT !.old = Value(MapP(ToMap(hp, c)), FALSE)]

\* goroutine t calls ToMap on a node of Cs
ToMapCall(t, Cs) ==
    /\ fault = "no"
    /\ stack[t] = <<>>
    /\ res[t] = NoResult
    /\ \E c \in Cs : stack' = [stack EXCEPT ![t] = <<ToMapFrame(heap, c)>>]
    /\ UNCHANGED <<heap, configMap, res, pc, tname, tcfg, seqVars, srcVars>>

\* ToMap returns.  If a Set has written the entries during the loop, the
\* runtime stops the program (concurrent map iteration and map write) or the
\* loop has seen the entries before the write or after it
ToMapReturn(t) ==
    /\ fault = "no"
    /\ stack[t] # <<>>
    /\ Top(t).fn = "ToMap"
    /\ LET seen == Top(t).old
           now  == Value(MapP(ToMap(heap, Top(t).c)), FALSE)
       IN  \/ /\ stack' = [stack EXCEPT ![t] = <<>>]
              /\ \E m \in {seen, now} : res' = [res EXCEPT ![t] = [op |-> "ToMap", v |-> m, ok |-> TRUE]]
              /\ UNCHANGED fault
           \/ /\ seen # now
              /\ fault' = "fatal"
              /\ UNCHANGED <<stack, res>>
    /\ UNCHANGED <<heap, configMap, pc, tname, tcfg, last, got, steps, srcVars>>

NextScan ==
    \/ NextLock
    \/ \E t \in Threads : ToMapCall(t, {Root}) \/ ToMapReturn(t)

SpecScan == Init /\ [][NextScan]_vars

(***************************************************************************)
(* SpecOpen: goroutines that call ReadFile(filename, true) and CloseWatcher *)
(* on the root, one step for each locked part of watchFile, while the       *)
(* goroutines of the watchers run                                          *)
(***************************************************************************)
\* goroutine t calls c.ReadFile(filename, true): the extension is looked at,
\* and watchFile is entered
OpenCall(t, Cs, Ns) ==
    /\ fault = "no"
    /\ stack[t] = <<>>
    /\ res[t] = NoResult
    /\ \E c \in Cs, filename \in Ns : \E format \in FileFormats(filename) :
        IF format = UnknownFormat
        THEN /\ res' = [res EXCEPT ![t] = [op |-> "FormatError", v |-> ZeroValue, ok |-> FALSE]]
             /\ UNCHANGED stack
        ELSE /\ stack' = [stack EXCEPT ![t] = <<Frame("ReadFile", c, filename, Nil, FALSE, "read")>>]
             /\ UNCHANGED res
    /\ UNCHANGED <<heap, configMap, pc, tname, tcfg, seqVars, srcVars>>

\* watchFile: var watcher = c.lock.RLockFunc(...), and the test watcher == nil
WatchRead(t) ==
    /\ fault = "no"
    /\ stack[t] # <<>>
    /\ Top(t).fn = "ReadFile" /\ Top(t).at = "read"
    /\ CanRLock(Top(t).c)
    /\ stack' = [stack EXCEPT ![t] =
           ReplaceTop(@, [Top(t) EXCEPT !.at = IF heap[Top(t).c].watcher = 0
                                               THEN "init" ELSE "add"])]
    /\ UNCHANGED <<heap, configMap, res, pc, tname, tcfg, seqVars, srcVars>>

\* watchFile: c.initWatcher()
WatchInit(t) ==
    /\ fault = "no"
    /\ stack[t] # <<>>
    /\ Top(t).fn = "ReadFile" /\ Top(t).at = "init"
    /\ CanLock(Top(t).c)
    /\ LET S == initWatcher(Cur, Top(t).c)
       IN  /\ heap' = S.heap
           /\ watchers' = S.watchers
    /\ stack' = [stack EXCEPT ![t] = ReplaceTop(@, [Top(t) EXCEPT !.at = "add"])]
    /\ UNCHANGED <<configMap, res, pc, tname, tcfg, seqVars, fs, dirs, timers>>

\* watchFile: c.lock.Lock(), the file made, c.watcher.Add(filename), which
\* panics on a nil c.watcher, and the deferred c.lock.Unlock()
WatchAdd(t) ==
    /\ fault = "no"
    /\ stack[t] # <<>>
    /\ Top(t).fn = "ReadFile" /\ Top(t).at = "add"
    /\ CanLock(Top(t).c)
    /\ IF heap[Top(t).c].watcher = 0
       THEN /\ fault' = "panic"
            /\ dirs' = watchFileNoAdd(Cur, Top(t).c, Top(t).key).dirs
            /\ UNCHANGED <<watchers, stack>>
       ELSE /\ watchers' = watchFile(Cur, Top(t).c, Top(t).key).watchers
            /\ dirs' = watchFile(Cur, Top(t).c, Top(t).key).dirs
            /\ stack' = [stack EXCEPT ![t] = ReplaceTop(@, [Top(t) EXCEPT !.at = "load"])]
            /\ UNCHANGED fault
    /\ UNCHANGED <<heap, configMap, res, pc, tname, tcfg, last, got, steps, fs, timers>>

\* ReadFile after watchFile: the file is read, a file that does not exist being
\* no error, and ReadFile returns
OpenLoad(t) ==
    /\ fault = "no"
    /\ stack[t] # <<>>
    /\ Top(t).fn = "ReadFile" /\ Top(t).at = "load"
    /\ \E S \in ReadFile(Cur, Top(t).c, Top(t).key, FALSE) :
        /\ heap' = S.heap
        /\ configMap' = S.configMap
        /\ fault' = S.fault
        /\ res' = [res EXCEPT ![t] =
               [op |-> IF Top(t).key \in DOMAIN fs THEN S.err ELSE "nil",
                v |-> ZeroValue, ok |-> TRUE]]
    /\ stack' = [stack EXCEPT ![t] = <<>>]
    /\ UNCHANGED <<pc, tname, tcfg, last, got, steps, srcVars>>

\* goroutine t calls c.CloseWatcher(), and the call returns
CloseCall(t, Cs) ==
    /\ fault = "no"
    /\ stack[t] = <<>>
    /\ res[t] = NoResult
    /\ \E c \in Cs :
        /\ CanLock(c)
        /\ heap' = CloseWatcher(Cur, c).heap
        /\ watchers' = CloseWatcher(Cur, c).watchers
        /\ timers' = CloseWatcher(Cur, c).timers
    /\ res' = [res EXCEPT ![t] = [op |-> "CloseWatcher", v |-> ZeroValue, ok |-> TRUE]]
    /\ UNCHANGED <<configMap, stack, pc, tname, tcfg, seqVars, fs, dirs>>

NextOpen ==
    \/ \E t \in Threads :
        \/ OpenCall(t, {Root}, {pJSON})
        \/ WatchRead(t)
        \/ WatchInit(t)
        \/ WatchAdd(t)
        \/ OpenLoad(t)
        \/ CloseCall(t, {Root})
    \/ \E w \in DOMAIN watchers : WatcherExit(w)

SpecOpen == Init /\ [][NextOpen]_vars

(***************************************************************************)
(* SpecTree: goroutines calling Get, Set, AddHook, GetConfig and ReadMap on *)
(* the nodes of the root's tree, each call once.  A goroutine that calls    *)
(* Lock may wait in it before it has the lock, and keeps RLock from         *)
(* returning to the others meanwhile, as sync.RWMutex has it.               *)
(***************************************************************************)
\* {"a": {"b": 1}}
TreeMaps == {sA :> MapP(sB :> IntP(1))}

\* the calls of goroutine t: the first reads, the second writes through the
\* root, the third writes to the nodes under the root and adds hooks, the
\* fourth reads, and so on
TreeCalls(t) ==
    CASE t % 3 = 1 ->
            {<<GetFrame(Root, sAB)>>, <<GetConfigFrame(sRA)>>}
      [] t % 3 = 2 ->
            {CallSet(Root, sAB, IntP(1), TRUE)}
                \cup {<<ReadMapFrame(Root, m, TRUE)>> : m \in TreeMaps}
      [] OTHER ->
            {CallSet(c, sB, IntP(2), TRUE) : c \in Nodes \ {Root}}
                \cup {<<Frame("AddHook", c, sB, Nil, FALSE, "lock")>> : c \in Nodes \ {Root}}
                \cup {<<Frame("AddHook", Root, sAB, Nil, FALSE, "lock")>>}

\* goroutine t makes its call
TreeCall(t) ==
    /\ fault = "no"
    /\ stack[t] = <<>>
    /\ res[t] = NoResult
    /\ \E call \in TreeCalls(t) : stack' = [stack EXCEPT ![t] = call]
    /\ UNCHANGED <<heap, configMap, res, pc, tname, tcfg, seqVars, srcVars>>

\* goroutine t has called c.lock.Lock() or globalLock.WLockFunc and waits in it
Want(t) ==
    /\ fault = "no"
    /\ stack[t] # <<>>
    /\ \/ /\ Top(t).fn \in {"Set", "AddHook"} /\ Top(t).at = "lock"
          /\ stack' = [stack EXCEPT ![t] = ReplaceTop(@, [Top(t) EXCEPT !.at = "locking"])]
       \/ /\ Top(t).fn = "GetConfig" /\ Top(t).at = "gwlock"
          /\ stack' = [stack EXCEPT ![t] = ReplaceTop(@, [Top(t) EXCEPT !.at = "gwlocking"])]
    /\ UNCHANGED <<heap, configMap, res, pc, tname, tcfg, seqVars, srcVars>>

\* AddHook: c.lock.Lock(), c.hook[key] = f, the deferred c.lock.Unlock(), and
\* the return
AddHookLock(t) ==
    /\ fault = "no"
    /\ stack[t] # <<>>
    /\ Top(t).fn = "AddHook" /\ Top(t).at \in {"lock", "locking"}
    /\ CanLock(Top(t).c)
    /\ heap' = AddHook(heap, Top(t).c, Top(t).key, "f")
    /\ stack' = [stack EXCEPT ![t] = Callers(t)]
    /\ res' = [res EXCEPT ![t] = [op |-> "AddHook", v |-> ZeroValue, ok |-> TRUE]]
    /\ UNCHANGED <<configMap, pc, tname, tcfg, seqVars, srcVars>>

\* ReadMap returns nil to its caller: the program, or the loop of the ReadMap
\* of the parent, which goes on to c.Set(k, cfg, strict)
ReturnReadMap(stk) ==
    IF stk = <<>>
    THEN Returned(stk, [op |-> "ReadMap", v |-> ZeroValue, ok |-> TRUE], "no")
    ELSE LET f == stk[Len(stk)]
         IN  Returned(ReplaceTop(stk, [f EXCEPT !.at = "set"])
                      \o CallSet(f.c, f.key, f.old.value, f.strict),
                      NoResult, "no")

\* ReadMap: the loop takes an entry (k, v), any of those left, and calls
\* GetConfig(c.name + "." + k) for a map v and c.Set(k, v, strict) for another
\* v; or no entry is left and ReadMap returns
ReadMapLoop(t) ==
    /\ fault = "no"
    /\ stack[t] # <<>>
    /\ Top(t).fn = "ReadMap" /\ Top(t).at = "loop"
    /\ LET f == Top(t)
           m == f.value.v
       IN  IF DOMAIN m = {}
           THEN /\ stack' = [stack EXCEPT ![t] = ReturnReadMap(Callers(t)).stack]
                /\ res' = [res EXCEPT ![t] = ReturnReadMap(Callers(t)).res]
           ELSE /\ \E k \in DOMAIN m :
                    stack' = [stack EXCEPT ![t] =
                        IF m[k].kind = "map"
                        THEN Append(ReplaceTop(@, [f EXCEPT !.at = "cfg", !.key = k]),
                                    GetConfigFrame(Join(heap[f.c].name, k)))
                        ELSE ReplaceTop(@, [f EXCEPT !.at = "set", !.key = k])
                             \o CallSet(f.c, k, m[k], f.strict)]
                /\ UNCHANGED res
    /\ UNCHANGED <<heap, configMap, pc, tname, tcfg, seqVars, srcVars>>

NextTree ==
    \/ \E t \in Threads : TreeCall(t) \/ Want(t) \/ AddHookLock(t) \/ ReadMapLoop(t)
    \/ \E t \in Threads : GetRLock(t) \/ GetRUnlock(t) \/ SetLock(t) \/ SetUnlock(t)
    \/ \E t \in Threads :
        GetConfigRLock(t) \/ GetConfigRUnlock(t) \/ GetConfigWLock(t) \/ GetConfigWUnlock(t)

SpecTree == Init /\ [][NextTree]_vars

(***************************************************************************)
(* The accessors of Value (src/unnamed/part_003).  A time.Duration is       *)
(* counted in seconds: every duration the accessors make is a multiple of   *)
(* time.Second.  A float64 is the decimal num / 10^dec with no trailing     *)
(* zero.  An accessor returns out, ok and fault: "no" for a return,         *)
(* "runtime" for a run-time panic of Go.                                    *)
(***************************************************************************)
BoolP(b) == [kind |-> "bool", v |-> b]

FloatP(num, dec) == [kind |-> "float", v |-> <<num, dec>>]

DurP(d) == [kind |-> "duration", v |-> d]

DigitChars == <<"0", "1", "2", "3", "4", "5", "6", "7", "8", "9">>

IsDigit(ch) == \E d \in DOMAIN DigitChars : DigitChars[d] = ch

DigitOf(ch) == (CHOOSE d \in DOMAIN DigitChars : DigitChars[d] = ch) - 1

AllDigits(s) == \A i \in DOMAIN s : IsDigit(s[i])

\* the number that the decimal digits s write, after the digits that write acc
RECURSIVE ParseUint(_, _)
ParseUint(s, acc) ==
    IF s = <<>> THEN acc ELSE ParseUint(Tail(s), acc * 10 + DigitOf(Head(s)))

\* strconv.Atoi(s): a sign or none, then one digit or more (the texts here are
\* too short to leave the range of int)
Atoi(s) ==
    LET signed == s # <<>> /\ Head(s) \in {"-", "+"}
        body   == IF signed THEN Tail(s) ELSE s
    IN  IF body = <<>> \/ ~AllDigits(body)
        THEN [v |-> 0, err |-> TRUE]
        ELSE [v |-> IF signed /\ Head(s) = "-" THEN 0 - ParseUint(body, 0)
                    ELSE ParseUint(body, 0),
              err |-> FALSE]

\* strconv.Itoa(n)
RECURSIVE Itoa(_)
Itoa(n) ==
    IF n < 0 THEN <<"-">> \o Itoa(0 - n)
    ELSE IF n < 10 THEN <<DigitChars[n + 1]>>
    ELSE Append(Itoa(n \div 10), DigitChars[(n % 10) + 1])

\* num / 10^dec without trailing zeros, num >= 0
RECURSIVE Normal(_, _)
Normal(num, dec) ==
    IF dec > 0 /\ num % 10 = 0 THEN Normal(num \div 10, dec - 1) ELSE <<num, dec>>

\* strconv.ParseFloat(s, 64) of a text of signs, digits and points: a sign or
\* none, then digits with at most one point among them, one digit at least
ParseFloat(s) ==
    LET signed == s # <<>> /\ Head(s) \in {"-", "+"}
        body   == IF signed THEN Tail(s) ELSE s
        dot    == Cut(body)
        whole  == dot.before
        frac   == dot.after
        n      == Normal(ParseUint(whole \o frac, 0), Len(frac))
    IN  IF ~AllDigits(whole) \/ ~AllDigits(frac) \/ whole \o frac = <<>>
        THEN [v |-> <<0, 0>>, err |-> TRUE]
        ELSE [v |-> IF signed /\ Head(s) = "-" THEN <<0 - n[1], n[2]>> ELSE n,
              err |-> FALSE]

TrueTexts ==
    {<<"1">>, <<"t">>, <<"T">>, <<"T", "R", "U", "E">>, <<"t", "r", "u", "e">>,
     <<"T", "r", "u", "e">>}

FalseTexts ==
    {<<"0">>, <<"f">>, <<"F">>, <<"F", "A", "L", "S", "E">>, <<"f", "a", "l", "s", "e">>,
     <<"F", "a", "l", "s", "e">>}

\* strconv.ParseBool(s)
ParseBool(s) ==
    IF s \in TrueTexts THEN [v |-> TRUE, err |-> FALSE]
    ELSE IF s \in FalseTexts THEN [v |-> FALSE, err |-> FALSE]
    ELSE [v |-> FALSE, err |-> TRUE]

\* the digits of n, with zeros before them up to the length w
RECURSIVE Pad(_, _)
Pad(s, w) == IF Len(s) >= w THEN s ELSE Pad(<<"0">> \o s, w)

\* fmt.Sprint(f) of a float64 num / 10^dec that needs no exponent
FormatFloat(num, dec) ==
    LET abs   == IF num < 0 THEN 0 - num ELSE num
        sign  == IF num < 0 THEN <<"-">> ELSE <<>>
        all   == Pad(Itoa(abs), dec + 1)
    IN  IF dec = 0 THEN sign \o all
        ELSE sign \o SubSeq(all, 1, Len(all) - dec) \o Dot
                  \o SubSeq(all, Len(all) - dec + 1, Len(all))

\* Duration.String() of d seconds
DurationString(d) ==
    LET abs  == IF d < 0 THEN 0 - d ELSE d
        sign == IF d < 0 THEN <<"-">> ELSE <<>>
        h    == abs \div 3600
        m    == (abs % 3600) \div 60
        s    == abs % 60
    IN  sign \o (IF h > 0 THEN Itoa(h) \o <<"h">> ELSE <<>>)
             \o (IF h > 0 \/ m > 0 THEN Itoa(m) \o <<"m">> ELSE <<>>)
             \o Itoa(s) \o <<"s">>

\* fmt.Sprint(v.value); a []any named i holds the one element i
SprintAny(p) ==
    CASE p.kind = "nil" -> <<"<", "n", "i", "l", ">">>
      [] p.kind = "int" -> Itoa(p.v)
      [] p.kind = "bool" -> IF p.v THEN <<"t", "r", "u", "e">> ELSE <<"f", "a", "l", "s", "e">>
      [] p.kind = "string" -> p.v
      [] p.kind = "float" -> FormatFloat(p.v[1], p.v[2])
      [] p.kind = "duration" -> DurationString(p.v)
      [] p.kind = "seq" -> <<"[">> \o Itoa(p.v) \o <<"]">>
      [] p.kind = "config" -> Sprint(p.v)

\* strings.Trim(s, " ")
RECURSIVE Trim(_)
Trim(s) ==
    IF s = <<>> THEN s
    ELSE IF Head(s) = " " THEN Trim(Tail(s))
    ELSE IF s[Len(s)] = " " THEN Trim(SubSeq(s, 1, Len(s) - 1))
    ELSE s

\* strings.Split(s, ","): the texts between the commas, one text at least
RECURSIVE Split(_, _)
Split(s, cur) ==
    IF s = <<>> THEN <<cur>>
    ELSE IF Head(s) = "," THEN <<cur>> \o Split(Tail(s), <<>>)
    ELSE Split(Tail(s), Append(cur, Head(s)))

Result(out, ok) == [out |-> out, ok |-> ok, fault |-> "no"]

\* v.AsConfig() as a result of an accessor
AsConfigValue(v) == Result(AsConfig(v).c, AsConfig(v).ok)

\* v.AsInt()
AsInt(v) ==
    LET t == v.value
    IN  IF t.kind = "string" /\ ~v.strict
        THEN IF Atoi(t.v).err THEN Result(0, FALSE) ELSE Result(Atoi(t.v).v, TRUE)
        ELSE IF t.kind = "float" /\ t.v[2] = 0 THEN Result(t.v[1], TRUE)
        ELSE IF t.kind = "int" THEN Result(t.v, TRUE)
        ELSE Result(0, FALSE)

Week == 7 * 24 * 3600

Day == 24 * 3600

Hour == 3600

Minute == 60

\* v.AsDuration(): t[:n-1] of the empty text is a slice out of range
AsDuration(v) ==
    LET t == v.value
        n == Len(t.v)
        a == Atoi(SubSeq(t.v, 1, n - 1))
    IN  IF t.kind = "string"
        THEN IF n = 0 THEN [out |-> 0, ok |-> FALSE, fault |-> "runtime"]
             ELSE IF a.err /\ n > 1 THEN Result(0, FALSE)
             ELSE CASE t.v[n] = "w" -> Result(a.v * Week, TRUE)
                    [] t.v[n] = "d" -> Result(a.v * Day, TRUE)
                    [] t.v[n] = "h" -> Result(a.v * Hour, TRUE)
                    [] t.v[n] = "m" -> Result(a.v * Minute, TRUE)
                    [] t.v[n] = "s" -> Result(a.v, TRUE)
                    [] OTHER -> IF Atoi(t.v).err THEN Result(0, FALSE)
                                ELSE Result(Atoi(t.v).v, TRUE)
        ELSE IF t.kind = "int" THEN Result(t.v, TRUE)
        ELSE IF t.kind = "duration" THEN Result(t.v, TRUE)
        ELSE Result(0, FALSE)

\* v.AsFloat()
AsFloat(v) ==
    LET t == v.value
    IN  IF t.kind = "string" /\ ~v.strict
        THEN IF ParseFloat(t.v).err THEN Result(<<0, 0>>, FALSE)
             ELSE Result(ParseFloat(t.v).v, TRUE)
        ELSE IF t.kind = "int" THEN Result(<<t.v, 0>>, TRUE)
        ELSE IF t.kind = "float" THEN Result(t.v, TRUE)
        ELSE Result(<<0, 0>>, FALSE)

\* v.AsBool()
AsBool(v) ==
    LET t == v.value
    IN  IF t.kind = "string" /\ ~v.strict
        THEN IF ParseBool(t.v).err THEN Result(FALSE, FALSE)
             ELSE Result(ParseBool(t.v).v, TRUE)
        ELSE IF t.kind = "bool" THEN Result(t.v, TRUE)
        ELSE Result(FALSE, FALSE)

\* v.AsString()
AsString(v) ==
    LET t == v.value
    IN  IF t.kind # "string" /\ ~v.strict THEN Result(SprintAny(t), TRUE)
        ELSE IF t.kind = "string" THEN Result(t.v, TRUE)
        ELSE Result(<<>>, FALSE)

\* v.AsArray()
AsArray(v) ==
    LET t     == v.value
        parts == Split(Trim(t.v), <<>>)
    IN  IF t.kind = "string" /\ ~v.strict
        THEN Result([i \in DOMAIN parts |-> Value(StrP(Trim(parts[i])), FALSE)], TRUE)
        ELSE IF t.kind = "seq" THEN Result(<<Value(IntP(t.v), TRUE)>>, TRUE)
        ELSE Result(<<>>, FALSE)

Accessors == {"Config", "Int", "Duration", "Float", "Bool", "String", "Array"}

\* v.As<acc>()
As(acc, v) ==
    CASE acc = "Config" -> AsConfigValue(v)
      [] acc = "Int" -> AsInt(v)
      [] acc = "Duration" -> AsDuration(v)
      [] acc = "Float" -> AsFloat(v)
      [] acc = "Bool" -> AsBool(v)
      [] acc = "String" -> AsString(v)
      [] acc = "Array" -> AsArray(v)

\* v.Must<acc>(): panic(CastError.Newf(...)) if !ok
Must(acc, v) ==
    LET r == As(acc, v)
    IN  IF r.fault = "no" /\ ~r.ok THEN [r EXCEPT !.fault = "CastError"] ELSE r

(***************************************************************************)
(* SpecValue: the accessors applied to Values of every kind of payload      *)
(***************************************************************************)
MaxStrLen == 3

Alphabet == {"0", "1", "-", ".", "s", "m", "h", "d", "w"}

\* the texts of Alphabet of length n at most
RECURSIVE Texts(_)
Texts(n) ==
    IF n = 0 THEN {<<>>}
    ELSE LET S == Texts(n - 1)
         IN  S \cup {Append(s, ch) : s \in S, ch \in Alphabet}

AllTexts == Texts(MaxStrLen)

\* the payloads that are no string
OtherPayloads ==
    <<Nil, IntP(0), IntP(5), BoolP(TRUE), FloatP(1, 0), FloatP(15, 1), DurP(90),
      SeqP(1), CfgP(1)>>

\* a call of an accessor of Value{value: p, strict: strict}; a panic is
\* recovered by the caller, which goes on
Access(acc, must, p, strict) ==
    LET r == IF must THEN Must(acc, Value(p, strict)) ELSE As(acc, Value(p, strict))
    IN  /\ last' = [NoCall EXCEPT !.op = (IF must THEN "Must" ELSE "As"), !.name = acc,
                                  !.value = p, !.strict = strict,
                                  !.out = r.out, !.ret = r.ok, !.err = r.fault,
                                  !.tick = ~last.tick]
        /\ steps' = steps + 1
        /\ UNCHANGED <<heap, configMap, got, fault, thrVars, srcVars>>

\* the program calls one accessor of a Value that holds a text
DoAccessText ==
    /\ last.op = "none"
    /\ \E acc \in Accessors, must \in BOOLEAN, strict \in BOOLEAN, s \in AllTexts :
        Access(acc, must, StrP(s), strict)

\* the program calls one accessor of a Value that holds no text
DoAccessOther ==
    /\ last.op = "none"
    /\ \E acc \in Accessors, must \in BOOLEAN, strict \in BOOLEAN, i \in DOMAIN OtherPayloads :
        Access(acc, must, OtherPayloads[i], strict)

NextValue == DoAccessText \/ DoAccessOther

SpecValue == Init /\ [][NextValue]_vars

(***************************************************************************)
(* SpecMap: maps read into nodes of a tree whose nodes may be registered    *)
(* beforehand, dotted Sets, and ToMap                                       *)
(***************************************************************************)
MaxMapOps == 3

\* c.ToMap() for a node of Cs
DoToMap(max, Cs) ==
    /\ CanCall(max)
    /\ \E c \in Cs :
        /\ last' = [NoCall EXCEPT !.op = "ToMap", !.c = c, !.out = ToMap(heap, c),
                                  !.plain = last.plain, !.tick = ~last.tick]
        /\ steps' = steps + 1
        /\ UNCHANGED <<heap, configMap, got, fault, thrVars, srcVars>>

RoundMaps ==
    {sA :> MapP(sB :> IntP(1)),
     (sA :> IntP(1)) @@ (sB :> Nil),
     sA :> MapP(EmptyMap),
     (sA :> MapP(sB :> MapP(sA :> Nil))) @@ (sEmpty :> IntP(2))}

RoundScalars == {Nil, IntP(1)}

NextMap ==
    \/ DoGetConfig(MaxMapOps, {sRA})
    \/ DoReadMap(MaxMapOps, Nodes, RoundMaps, {TRUE})
    \/ DoSet(MaxMapOps, Nodes, {sA, sAB}, RoundScalars, {TRUE})
    \/ DoToMap(MaxMapOps, Nodes)

SpecMap == Init /\ [][NextMap]_vars

(***************************************************************************)
(* SpecDots: Set, ReadMap and ReadBytes with keys that hold dots: in front,  *)
(* at the end, and in the keys of nested maps                               *)
(***************************************************************************)
MaxDotOps == 2

sADot == <<"a", ".">>

sDotB == <<".", "b">>

DotKeys == {sA, sAB, sADot, sDotB}

DotMaps ==
    {sAB :> MapP(sADot :> IntP(1)),
     (sA :> MapP(sB :> Nil)) @@ (sADot :> IntP(2)),
     sDotB :> MapP(EmptyMap)}

DotContents ==
    {Content("json", <<<<sAB, IntP(1)>>>>),
     Content("json", <<<<sADot, MapP(sAB :> IntP(2))>>>>),
     Content("ini", <<<<sAB, StrP(sB)>>, <<sADot, StrP(sA)>>>>),
     Content("env", <<<<sAB, StrP(sA)>>>>)}

NextDots ==
    \/ DoSet(MaxDotOps, Nodes, DotKeys, RoundScalars, BOOLEAN)
    \/ DoReadMap(MaxDotOps, {Root}, DotMaps, {TRUE})
    \/ DoReadBytes(MaxDotOps, {Root}, {JSON, INI, ENV}, DotContents)

SpecDots == Init /\ [][NextDots]_vars

(***************************************************************************)
(* SpecHook: Set calls with scalar payloads on the root of a tree up to     *)
(* three levels deep, with hooks on any node                               *)
(***************************************************************************)
HookKeys == {sA, sAB, sABA}

Patterns == {sEmpty, sA, sAB, sB}

HookPayloads == {IntP(1), IntP(2)}

NextHook ==
    \/ DoSet(MaxOps, {Root}, HookKeys, HookPayloads, BOOLEAN)
    \/ DoAddHook(MaxOps, Nodes, Patterns)

SpecHook == Init /\ [][NextHook]_vars

(***************************************************************************)
(* Spec: the registry and the entries under every call of the API, nodes    *)
(* being stored as payloads too                                            *)
(***************************************************************************)
Names == {sEmpty, sR, sRA}

TreeKeys == {sA, sAB}

Scalars == {Nil, IntP(1)}

TreePayloads == Scalars \cup {SeqP(1)} \cup {CfgP(i) : i \in Nodes}

Maps == {sA :> MapP(sB :> IntP(1)), (sA :> IntP(1)) @@ (sB :> Nil)}

Next ==
    \/ DoGetConfig(MaxTreeOps, Names)
    \/ DoSet(MaxTreeOps, Nodes, TreeKeys, TreePayloads, BOOLEAN)
    \/ DoAddHook(MaxTreeOps, {Root}, {sA})
    \/ DoReadMap(MaxTreeOps, {Root}, Maps, BOOLEAN)

Spec == Init /\ [][Next]_vars

(***************************************************************************)
(* SpecOver: Set calls on the root with keys of one, two and three segments, *)
(* the payloads being nil, a number, a sequence and the root itself         *)
(***************************************************************************)
MaxOverOps == 3

OverKeys == {sA, sAB, sABA}

OverPayloads == {Nil, IntP(1), SeqP(1), CfgP(Root)}

NextOver ==
    \/ DoGetConfig(MaxOverOps, {sRA})
    \/ DoSet(MaxOverOps, {Root}, OverKeys, OverPayloads, BOOLEAN)

SpecOver == Init /\ [][NextOver]_vars

(***************************************************************************)
(* SpecBack: Set calls on the root that put a sub-tree at "a", a scalar      *)
(* over it, and a sub-tree again                                            *)
(***************************************************************************)
MaxBackOps == 3

BackKeys == {sA, sAB, sADot}

BackPayloads == {IntP(1), IntP(2)}

NextBack == DoSet(MaxBackOps, {Root}, BackKeys, BackPayloads, {TRUE})

SpecBack == Init /\ [][NextBack]_vars

(***************************************************************************)
(* SpecStrict: Set calls on the root with texts as payloads and both flags  *)
(***************************************************************************)
MaxStrictOps == 3

StrictPayloads == {StrP(<<"1">>), StrP(<<"s">>)}

NextStrict == DoSet(MaxStrictOps, {Root}, {sA, sAB}, StrictPayloads, BOOLEAN)

SpecStrict == Init /\ [][NextStrict]_vars

(***************************************************************************)
(* SpecIngest: maps with one nested map read into the root and Set calls    *)
(* on the key of the nested entry, hooks on the root only                  *)
(***************************************************************************)
MaxIngestOps == 4

IngestMaps == {sA :> MapP(sB :> IntP(1)), sA :> MapP(sB :> IntP(2))}

NextIngest ==
    \/ DoAddHook(MaxIngestOps, {Root}, {sA, sAB})
    \/ DoReadMap(MaxIngestOps, {Root}, IngestMaps, {TRUE})
    \/ DoSet(MaxIngestOps, {Root}, {sAB}, {IntP(1), IntP(2)}, {TRUE})

SpecIngest == Init /\ [][NextIngest]_vars

(***************************************************************************)
(* SpecGC: goroutines calling GetConfig concurrently, one step for each     *)
(* critical section of the call                                            *)
(***************************************************************************)
GCNames == {sR, sRA}

InitGC ==
    /\ heap = <<>>
    /\ configMap = EmptyMap
    /\ last = NoCall
    /\ got = <<>>
    /\ fault = "no"
    /\ steps = 0
    /\ pc = [t \in Threads |-> "idle"]
    /\ tname = [t \in Threads |-> sEmpty]
    /\ tcfg = [t \in Threads |-> 0]
    /\ fs = EmptyMap
    /\ dirs = {}
    /\ watchers = <<>>
    /\ timers = <<>>
    /\ stack = [t \in Threads |-> <<>>]
    /\ res = [t \in Threads |-> NoResult]

\* goroutine t calls GetConfig(nm)
GCCall(t) ==
    /\ pc[t] = "idle"
    /\ \E nm \in GCNames : tname' = [tname EXCEPT ![t] = nm]
    /\ pc' = [pc EXCEPT ![t] = "lookup"]
    /\ UNCHANGED <<heap, configMap, tcfg, lockVars, seqVars, srcVars>>

\* globalLock.RLockFunc: the lookup, and the return of the node found
GCLookup(t) ==
    /\ pc[t] = "lookup"
    /\ LET c == Lookup(configMap, tname[t])
       IN  IF c # 0
           THEN /\ tcfg' = [tcfg EXCEPT ![t] = c]
                /\ pc' = [pc EXCEPT ![t] = "done"]
           ELSE /\ pc' = [pc EXCEPT ![t] = "new"]
                /\ UNCHANGED tcfg
    /\ UNCHANGED <<heap, configMap, tname, lockVars, seqVars, srcVars>>

\* cfg = &Config{...}; cfg.name = name
GCNew(t) ==
    /\ pc[t] = "new"
    /\ heap' = Append(heap, NewConfig(NodeName(tname[t], Len(heap) + 1)))
    /\ tcfg' = [tcfg EXCEPT ![t] = Len(heap) + 1]
    /\ pc' = [pc EXCEPT ![t] = "store"]
    /\ UNCHANGED <<configMap, tname, lockVars, seqVars, srcVars>>

\* globalLock.WLockFunc: the store, and the return of the node constructed
GCStore(t) ==
    /\ pc[t] = "store"
    /\ configMap' = Register(configMap, heap[tcfg[t]].name, tcfg[t])
    /\ pc' = [pc EXCEPT ![t] = "done"]
    /\ UNCHANGED <<heap, tname, tcfg, lockVars, seqVars, srcVars>>

NextGC == \E t \in Threads : GCCall(t) \/ GCLookup(t) \/ GCNew(t) \/ GCStore(t)

SpecGC == InitGC /\ [][NextGC]_vars

(***************************************************************************)
(* Hooks fired by one Set call                                             *)
(***************************************************************************)
\* the last call is a Set call that returned
SetReturned == last.op = "Set" /\ fault = "no"

\* the node that c.config[seg] refers to, 0 if it refers to none
Child(c, seg) ==
    LET e == MapGet(heap[c].config, seg)
    IN  IF e.ok /\ AsConfig(e.v).ok THEN AsConfig(e.v).c ELSE 0

\* C1: a single Set call invokes at most one hook callback in total, whatever
\* nodes along the path of the key have hooks.
C1_AtMostOneHook == SetReturned => Len(last.events) <= 1

\* C2: Set returns true if and only if a hook callback was executed during the
\* call, the hook of a descendant node included.
C2_ReturnsTrueIffHookRan == SetReturned => (last.ret <=> Len(last.events) > 0)

(***************************************************************************)
(* Which hook is chosen                                                    *)
(***************************************************************************)
\* the last Set call changed the key: the key did not hold the payload already
Changed == ~(last.oldok /\ last.old.value = last.value)

\* the key of the event e relative to the node whose hook was handed e
RelKey(e) == SubSeq(e.Key, Len(heap[e.c].name) + 2, Len(e.Key))

\* the pattern p is the key, or a dotted prefix of it
Covers(p, key) == p = key \/ HasPrefix(key, p \o Dot)

\* the hooks of node c that are candidates for key: the wildcard and the
\* patterns that cover the key
Candidates(c, key) == {p \in DOMAIN heap[c].hook : p = sEmpty \/ Covers(p, key)}

Longest(S) == CHOOSE p \in S : \A q \in S : Len(q) <= Len(p)

\* the keys relative to the nodes of the trees of SpecHook
RelKeys == HookKeys \cup {sB, <<"b", ".", "a">>}

\* C3: on one node the hook chosen for a changed key is the candidate with the
\* longest pattern, the wildcard being chosen only when no other pattern covers
\* the key, and the choice does not depend on the order of enumeration.
C3_LongestPatternWins ==
    /\ \A c \in Nodes, k \in RelKeys : Cardinality(FindHook(heap[c].hook, k)) = 1
    /\ (SetReturned /\ Changed) =>
          /\ \A i \in 1..Len(last.events) :
                LET e == last.events[i]
                IN  e.pattern = Longest(Candidates(e.c, RelKey(e)))
          /\ last.events = <<>> => Candidates(last.c, last.key) = {}

\* the nodes on the path of key from node c, each with the key relative to it
RECURSIVE Path(_, _)
Path(c, key) ==
    LET cut == Cut(key)
        ch  == Child(c, cut.before)
    IN  IF cut.found /\ ch # 0
        THEN <<[c |-> c, key |-> key]>> \o Path(ch, cut.after)
        ELSE <<[c |-> c, key |-> key]>>

\* node x.c has a hook whose pattern covers the key x.key
HasCover(x) == \E p \in DOMAIN heap[x.c].hook : Covers(p, x.key)

Max(S) == CHOOSE i \in S : \A j \in S : j <= i

\* C4: when nodes on the path of a changed key have a hook that matches the key
\* relative to them, the matching hook of the deepest such node is executed.
C4_ClosestNodeWins ==
    (SetReturned /\ Changed) =>
        LET P == Path(last.c, last.key)
            M == {i \in 1..Len(P) : HasCover(P[i])}
        IN  M # {} =>
              \E j \in 1..Len(last.events) :
                  /\ last.events[j].c = P[Max(M)].c
                  /\ Covers(last.events[j].pattern, P[Max(M)].key)

\* C10: on a tree built only by Set calls with dotted keys on the root r (every
\* Set call of SpecHook is on the root), the Event of a hook run by
\* root.Set(K, v, s) has the key r.K, as Old the Value at K before the call (the
\* nil Value if K was absent) and as New the Value {v, s} that Get(K) returns
\* after the call.
C10_EventFields ==
    (SetReturned /\ last.c = Root /\ ~last.plain) =>
        \A i \in 1..Len(last.events) :
            /\ last.events[i].Key = sR \o Dot \o last.key
            /\ last.events[i].Old = last.old
            /\ last.events[i].New = [value |-> last.value, strict |-> last.strict]
            /\ Get(heap, Root, last.key, {}).v = last.events[i].New

(***************************************************************************)
(* Set and Get, the registry                                               *)
(***************************************************************************)
\* C9: a Set(k, v, strict) issued when k already holds the raw payload v returns
\* false, invokes no hook and leaves every node and the registry unchanged.
C9_SameValueIsNoOp ==
    [][(last'.op = "Set" /\ steps' = steps + 1 /\ last'.oldok
          /\ last'.old.value = last'.value)
       => (~last'.ret /\ last'.events = <<>> /\ fault' = "no"
             /\ heap' = heap /\ configMap' = configMap)]_vars

C7_SetThenGet ==
    (SetReturned /\ last.value.kind \in {"nil", "int"}) =>
        LET g == Get(heap, last.c, last.key, {})
        IN  g.ok /\ g.v.value = last.value

\* a dotted Set call wrote a scalar under a first segment that held a scalar
C7_Witness ==
    /\ SetReturned /\ Changed
    /\ last.key = sAB /\ last.value = IntP(1)
    /\ last.firstok /\ last.first.value.kind # "config"

\* the sub-tree at "a" of the node of the last Set call, and what it holds at "b"
SubTreeHolds(sub) ==
    /\ sub # 0
    /\ LET g == Get(heap, sub, sB, {}) IN g.ok /\ g.v.value = last.value

\* C8 as stated: after Set("a.b", v, strict) on a node named n, Get("a") yields
\* the sub-tree GetConfig(n + ".a"), and Get("b") on it yields v.
C8_SubTreeIsRegistered ==
    (SetReturned /\ last.key = sAB) =>
        LET sub == Child(last.c, sA)
        IN  /\ SubTreeHolds(sub)
            /\ sub = Lookup(configMap, heap[last.c].name \o Dot \o sA)

\* C8 amended: Get("a") yields a sub-tree whose Get("b") yields v; the sub-tree
\* is GetConfig(n + ".a") when the entry "a" was absent or no sub-tree before the
\* call, and the sub-tree that the entry already referred to otherwise.
C8_SubTreeKeptOrRegistered ==
    (SetReturned /\ last.key = sAB) =>
        LET sub == Child(last.c, sA)
        IN  /\ SubTreeHolds(sub)
            /\ IF last.firstok /\ last.first.value.kind = "config"
               THEN sub = last.first.value.v
               ELSE sub = Lookup(configMap, heap[last.c].name \o Dot \o sA)

\* Set("a.b", v, strict) replaced a scalar at "a" by a sub-tree
C8_Witness ==
    /\ SetReturned /\ last.key = sAB
    /\ last.firstok /\ last.first.value.kind # "config"
    /\ Child(last.c, sA) # 0

(***************************************************************************)
(* Concurrent GetConfig calls                                              *)
(***************************************************************************)
AllDone == \A t \in Threads : pc[t] = "done"

\* C6: concurrent GetConfig(n) calls for a name not yet registered all return
\* the same node, the one the registry maps n to once all have returned.
C6_AllCallsSameNode ==
    AllDone =>
        \A t \in Threads, u \in Threads :
            tname[t] = tname[u] =>
                tcfg[t] = tcfg[u] /\ tcfg[t] = Lookup(configMap, tname[t])

(***************************************************************************)
(* The readers and the watchers: what the claims say of them               *)
(***************************************************************************)
\* the step is the call op
Did(op) == last'.op = op /\ last'.tick # last.tick

\* the entries of every node
Entries(hp) == [n \in DOMAIN hp |-> hp[n].config]

\* the syntax that the reader of a format reads
SyntaxOf == (JSON :> "json") @@ (INI :> "ini") @@ (ENV :> "env")

\* the format of the extension of the path p
PathFormat(p) ==
    IF HasSuffix(p, ExtJSON) THEN JSON
    ELSE IF HasSuffix(p, ExtINI) THEN INI
    ELSE IF HasSuffix(p, ExtENV) THEN ENV
    ELSE UnknownFormat

\* b is no text of the format: the format is unsupported, or b malformed
Malformed(format, b) == format \notin DOMAIN SyntaxOf \/ b.syn # SyntaxOf[format]

\* C11: a call of ReadBytes (and so of ReadJSON, ReadINI, ReadENV) with malformed
\* input or an unsupported format, and a background reload of a file whose
\* content is malformed, yield an error, leave the entries of every node as they
\* were and hand no event to a hook
C11_MalformedChangesNothing ==
    [][(\/ Did("ReadBytes") /\ Malformed(last'.d, last'.value)
        \/ Did("Reload") /\ last'.arg \in DOMAIN fs
                         /\ Malformed(PathFormat(last'.arg), fs[last'.arg]))
       => /\ last'.err # "nil"
          /\ fault' = "no"
          /\ Entries(heap') = Entries(heap)
          /\ last'.events = <<>>]_vars

\* a background reload has met a malformed file, the root has a hook on "a" and
\* keeps the entry "a" that it read from the file before
C11_Witness ==
    /\ last.op = "Reload"
    /\ last.err = "ValueError"
    /\ sA \in DOMAIN heap[Root].config
    /\ sA \in DOMAIN heap[Root].hook

\* C12: Set and the ingestion methods never panic, whatever kinds of payload
\* they are given: no call and no background reload ends in a run-time panic
C12_NoPanic == fault # "panic"

\* Get("a.b") finds nothing on a node where "a" is absent or holds no sub-tree
GetNeedsSubTree ==
    \A c \in Nodes :
        (sA \notin DOMAIN heap[c].config \/ ~AsConfig(heap[c].config[sA]).ok)
            => ~Get(heap, c, sAB, {}).ok

\* C13: the lookups agree with Get: Get("a.b") reports not found when "a" is
\* absent or holds no sub-tree; MustGet(k) raises a ConfigKeyError exactly when
\* Get(k) reports not found and returns the Value of Get otherwise; GetDefault(k, d)
\* returns the strict Value of d exactly when Get(k) reports not found and the
\* stored Value otherwise; neither changes the entries of a node
C13_LookupsAgreeWithGet ==
    /\ []GetNeedsSubTree
    /\ [][/\ Did("MustGet") =>
               LET g == Get(heap, last'.c, last'.key, {})
               IN  /\ last'.err = "ConfigKeyError" <=> ~g.ok
                   /\ last'.err \in {"nil", "ConfigKeyError"}
                   /\ g.ok => last'.out = g.v
                   /\ Entries(heap') = Entries(heap)
          /\ Did("GetDefault") =>
               LET g == Get(heap, last'.c, last'.key, {})
               IN  /\ ~g.ok => last'.out = Value(last'.value, TRUE)
                   /\ g.ok => last'.out = g.v
                   /\ last'.err = "nil"
                   /\ Entries(heap') = Entries(heap)]_vars

\* GetDefault("a.b", 2) has returned the default on a root whose "a" is a number
C13_Witness ==
    /\ last.op = "GetDefault"
    /\ last.key = sAB
    /\ last.out = Value(IntP(2), TRUE)
    /\ sA \in DOMAIN heap[Root].config
    /\ heap[Root].config[sA].value.kind = "int"

\* the address url has an unrecognised extension, a prefix other than "s3://"
\* or no key segment after the bucket
BadAddress(url) ==
    \/ PathFormat(url) = UnknownFormat
    \/ ~HasPrefix(url, S3Prefix)
    \/ IndexOf(SubSeq(url, Len(S3Prefix) + 1, Len(url)), "/", 1) = 0

C16_ReloadReflectsContent ==
    [][Did("Reload") /\ last'.arg \in DOMAIN fs
                     /\ ~Malformed(PathFormat(last'.arg), fs[last'.arg])
       => /\ fault' = "no"
          /\ \A i \in DOMAIN fs[last'.arg].val :
                LET kv == fs[last'.arg].val[i]
                    g  == Get(heap', last'.c, kv[1], {})
                IN  g.ok /\ (kv[2].kind # "map" => g.v.value = kv[2])]_vars

\* no timer of the node c for a source of srcs is pending among ts
NoPending(ts, c, srcs) ==
    \A t \in DOMAIN ts : ts[t].c = c /\ ts[t].src \in srcs => ts[t].state # "pending"

\* the sources that are polled
Polled == {sENV, uGood}

\* C17: when CloseWatcher returns the node has no watcher and no registered
\* timer; a closed watcher delivers no event to its goroutine; and a later
\* ReadFile(path, true) starts a fresh watcher that watches the path
C17_CloseWatcherStopsAll ==
    [][/\ Did("CloseWatcher") =>
            /\ last'.err = "nil"
            /\ heap'[last'.c].watcher = 0
            /\ heap'[last'.c].timerWatchers = EmptyMap
            /\ NoPending(timers', last'.c, Polled)
            /\ \A w \in DOMAIN watchers' : watchers'[w].c = last'.c => watchers'[w].closed
       /\ Did("Recv") => ~watchers[last'.node].closed
       /\ Did("ReadFile") /\ last'.watch /\ heap[last'.c].watcher = 0
                          /\ PathFormat(last'.arg) # UnknownFormat =>
            /\ heap'[last'.c].watcher = Len(watchers) + 1
            /\ watchers'[Len(watchers) + 1].task = "run"
            /\ ~watchers'[Len(watchers) + 1].closed
            /\ last'.arg \in watchers'[Len(watchers) + 1].paths]_vars

\* C18: when UnWatch(id) of a polled source or CloseWatcher returns, no timer of
\* the node for that source is pending, and the callback of a timer registers
\* the next timer only while the node still watches the source
C18_UnWatchStopsPolling ==
    [][/\ Did("UnWatch") /\ last'.arg \in DOMAIN heap[last'.c].timerWatchers =>
            NoPending(timers', last'.c, {last'.arg})
       /\ Did("CloseWatcher") => NoPending(timers', last'.c, Polled)
       /\ Did("Callback") /\ Len(timers') > Len(timers) =>
            last'.arg \in DOMAIN heap[last'.c].timerWatchers]_vars

\* C19: the callback of a timer of LoadEnv(d) or ReadS3(url, d) completes and
\* leaves the next timer of the source pending, also when the fetch has failed;
\* with d = 0 the calls register no timer, and ReadS3 returns a ConfigError
\* when the fetch fails
C19_PollingGoesOn ==
    [][/\ Did("Callback") =>
            /\ fault' = "no"
            /\ last'.arg \in DOMAIN heap'[last'.c].timerWatchers
            /\ heap'[last'.c].timerWatchers[last'.arg] = Len(timers) + 1
            /\ timers'[Len(timers) + 1].state = "pending"
            /\ timers'[Len(timers) + 1].src = last'.arg
       /\ Did("ReadS3") /\ last'.d = 0 =>
            /\ timers' = timers
            /\ heap'[last'.c].timerWatchers = heap[last'.c].timerWatchers
            /\ last'.value.kind # "ok" => last'.err = "ConfigError"
       /\ Did("LoadEnv") /\ last'.d = 0 =>
            /\ timers' = timers
            /\ heap'[last'.c].timerWatchers = heap[last'.c].timerWatchers]_vars

\* C20: UnWatch(id) right after an UnWatch(id) that unwatched a watched id, and
\* CloseWatcher right after CloseWatcher, return no error and change nothing
C20_StoppingTwice ==
    [][/\ Did("UnWatch") /\ last.op = "UnWatch" /\ last.c = last'.c
                         /\ last.arg = last'.arg /\ last.ret /\ last.err = "nil" =>
            /\ last'.err = "nil"
            /\ <<heap, watchers, timers>>' = <<heap, watchers, timers>>
       /\ Did("CloseWatcher") /\ last.op = "CloseWatcher" /\ last.c = last'.c =>
            /\ last'.err = "nil"
            /\ <<heap, watchers, timers>>' = <<heap, watchers, timers>>]_vars

\* C21: UnWatch(id) of an id that the node never registered, here on a program
\* that has made no watcher and no timer at all, returns a ConfigError
C21_UnWatchUnknownFails ==
    [][Did("UnWatch") /\ watchers = <<>> /\ timers = <<>>
       => last'.err = "ConfigError"]_vars

\* C22: once NoWatch has returned on a node, the goroutine of no watcher of the
\* node receives a write event, so no write of a file made afterwards is read
\* again, however NoWatch and a concurrent ReadFile(path, true) interleave
C22_NoWatchStopsReloads ==
    [][Did("Recv") => heap[last'.c].isWatch]_vars


(***************************************************************************)
(* Concurrent Get and Set calls                                            *)
(***************************************************************************)
\* every call of every goroutine has returned
AllReturned == \A t \in Threads : stack[t] = <<>>

\* C23: a Get that runs while other goroutines Set the same key returns the
\* Value stored before a Set (none, here) or the Value one of the Sets writes;
\* and once every call has returned, the key holds the Value of the Set call
\* that took the write lock of the node last
C23_LastLockerWins ==
    /\ \A t \in Threads :
        res[t].op = "Get" /\ res[t].ok => res[t].v.value \in LockValues
    /\ AllReturned /\ last.op = "Lock"
        => Get(heap, last.c, last.key, {})
            = [v |-> Value(last.value, last.strict), ok |-> TRUE, blocked |-> FALSE]

\* a Get returns nothing, or a Value that one of the Sets writes
GetSeesWritten ==
    \A t \in Threads :
        res[t].op = "Get" /\ res[t].ok
            => \E p \in LockValues, s \in BOOLEAN : res[t].v = Value(p, s)

\* C23 as amended: a Get that runs while other goroutines Set the same key
\* returns the Value stored before a Set or the Value one of the Sets writes;
\* and once every call has returned, the key holds the payload of the Set call
\* that took the write lock of the node last
C23_LastLockerPayload ==
    /\ GetSeesWritten
    /\ AllReturned /\ last.op = "Lock"
        => /\ Get(heap, last.c, last.key, {}).ok
           /\ Get(heap, last.c, last.key, {}).v.value = last.value

\* two Sets and a Get that found the key have returned
C23_Witness ==
    /\ AllReturned
    /\ last.op = "Lock"
    /\ \E t1, t2, t3 \in Threads :
        /\ t1 # t2
        /\ res[t1].op = "Set" /\ res[t2].op = "Set"
        /\ res[t3].op = "Get" /\ res[t3].ok /\ res[t3].v.value # last.value

\* the nodes of which goroutine t holds the lock, for reading or for writing
LocksHeld(t) == {c \in Nodes : t \in RHeld(c) \cup WHeld(c)}

\* C24: a goroutine inside a Get call of the program holds the lock of at most
\* one node at a time
C24_OneLockAtATime ==
    \A t \in Threads :
        stack[t] # <<>> /\ stack[t][1].fn = "Get" => Cardinality(LocksHeld(t)) <= 1

(***************************************************************************)
(* ToMap                                                                   *)
(***************************************************************************)
\* C25: ToMap() called right after ReadMap(m) on a node that had no entry and
\* no descendant in the registry returns m; called right after
\* Set("a.b", v, true) on such a node it returns {a: {b: v}}, the map that
\* ReadMap({a: {b: v}}) gives
C25_RoundTrip ==
    [][Did("ToMap") /\ last.fresh /\ last'.c = last.c
       => /\ last.op = "ReadMap" => last'.out = last.arg
          /\ last.op = "Set" /\ last.key = sAB
                => last'.out = (sA :> MapP(sB :> last.value))]_vars

\* ToMap has returned a map of three levels, read into the fresh root by the
\* only call before
C25_Witness ==
    /\ steps = 2
    /\ last.op = "ToMap"
    /\ last.c = Root
    /\ last.out = (sA :> MapP(sB :> MapP(sA :> Nil))) @@ (sEmpty :> IntP(2))

(***************************************************************************)
(* The accessors of Value                                                  *)
(***************************************************************************)
\* C26: an As accessor other than AsString of a strict Value that holds a text
\* reports failure
C26_StrictTextFails ==
    last.op = "As" /\ last.value.kind = "string" /\ last.strict /\ last.name # "String"
        => ~last.ret

Suffixes == {"s", "m", "h", "d", "w"}

\* the seconds of one unit of the suffix
SecondsOf(suf) ==
    CASE suf = "s" -> 1 [] suf = "m" -> 60 [] suf = "h" -> 3600
      [] suf = "d" -> 86400 [] suf = "w" -> 604800

\* the text begins with a number: a digit, or a sign and a digit
StartsWithInteger(s) ==
    /\ s # <<>>
    /\ \/ IsDigit(s[1])
       \/ Len(s) > 1 /\ s[1] \in {"-", "+"} /\ IsDigit(s[2])

\* C27: AsDuration of a non-strict text of the digits of n and a suffix gives n
\* units of the suffix, of the digits of n alone n seconds, of the int n
\* n seconds; of a text that does not begin with a number it reports failure
C27_DurationCoercion ==
    last.op = "As" /\ last.name = "Duration" /\ last.err = "no"
        => /\ last.value.kind = "string" /\ ~last.strict
                => LET s == last.value.v
                       n == Len(s)
                   IN  /\ n > 1 /\ AllDigits(SubSeq(s, 1, n - 1)) /\ s[n] \in Suffixes
                            => /\ last.ret
                               /\ last.out = ParseUint(SubSeq(s, 1, n - 1), 0) * SecondsOf(s[n])
                       /\ n > 0 /\ AllDigits(s)
                            => last.ret /\ last.out = ParseUint(s, 0)
                       /\ n > 0 /\ ~StartsWithInteger(s) => ~last.ret
           /\ last.value.kind = "int" /\ last.value.v >= 0
                => last.ret /\ last.out = last.value.v

\* C28: an As accessor returns and does not panic, whatever the payload and the
\* flag; a Must accessor panics with a CastError if the As accessor reports
\* failure, and returns otherwise
C28_OnlyMustRaises ==
    /\ last.op = "As" => last.err = "no"
    /\ last.op = "Must" => last.err = (IF last.ret THEN "no" ELSE "CastError")

(***************************************************************************)
(* Keys with dots                                                          *)
(***************************************************************************)
HasDot(s) == \E i \in DOMAIN s : s[i] = "."

\* C29: no entry of a node has a key with a dot, and an entry that is a
\* sub-tree, at the key s of the node named p, is the node named p + "." + s
C29_NoDottedEntry ==
    \A p \in Nodes : \A s \in DOMAIN heap[p].config :
        /\ ~HasDot(s)
        /\ AsConfig(heap[p].config[s]).ok
            => heap[AsConfig(heap[p].config[s]).c].name = Join(heap[p].name, s)

\* the map {"a.b": {"a.": 1}} has been read: the node r.a.b holds the
\* sub-tree a, which holds 1 at the empty key
C29_Witness ==
    /\ fault = "no"
    /\ Get(heap, Root, <<"a", ".", "b", ".", "a", ".">>, {}).ok
    /\ Get(heap, Root, <<"a", ".", "b", ".", "a", ".">>, {}).v.value = IntP(1)

(***************************************************************************)
(* A dotted Set over an entry that is no sub-tree                          *)
(***************************************************************************)
\* the call made is Set(k + "." + seg, y, s2) for a segment seg, on the node
\* and right after the call Set(k, x, s1) of a payload x that is no node, and
\* it has returned
SetBelowLast ==
    /\ last.op = "Set" /\ last'.op = "Set"
    /\ steps' = steps + 1
    /\ fault' = "no"
    /\ last'.c = last.c
    /\ last.value.kind # "config"
    /\ \E seg \in {sA, sB} : last'.key = Join(last.key, seg)

\* C30: Set(k + "." + seg, y, s2) right after Set(k, x, s1), x being no
\* sub-tree: Get(k) is then a sub-tree and Get(k + "." + seg) holds y, for
\* k = "a" and for k = "a.b"
C30_DottedSetOverwrites ==
    [][SetBelowLast
       => /\ AsConfig(Get(heap', last'.c, last.key, {}).v).ok
          /\ Get(heap', last'.c, last'.key, {}).ok
          /\ Get(heap', last'.c, last'.key, {}).v.value = last'.value]_vars

\* Set("a.b", 1, s1) and then Set("a.b.a", nil, s2) on the root have returned,
\* "a.b" having held the number 1 in between
C30_Witness ==
    /\ fault = "no"
    /\ last.op = "Set" /\ last.c = Root /\ last.key = sABA /\ last.value = Nil
    /\ last.first.value.kind = "config"
    /\ ~last.oldok
    /\ steps = 2
    /\ Get(heap, Root, sABA, {}).ok

(***************************************************************************)
(* A sub-tree made again over a scalar                                     *)
(***************************************************************************)
\* a Set call with a dotted key has returned, and the entry at the first
\* segment of the key was there and was no sub-tree when it was made
SetOverScalar ==
    /\ last'.op = "Set"
    /\ steps' = steps + 1
    /\ fault' = "no"
    /\ Cut(last'.key).found
    /\ last'.firstok
    /\ ~AsConfig(last'.first).ok

\* C31: the sub-tree that a dotted Set makes over a scalar holds the key set
\* by this call and no other: what an earlier sub-tree at the same key held is
\* not found any more
C31_NoOldContent ==
    [][SetOverScalar
       => DOMAIN heap'[AsConfig(heap'[last'.c].config[Cut(last'.key).before]).c].config
            = {Cut(Cut(last'.key).after).before}]_vars

(***************************************************************************)
(* The strict flag of the Value that Set leaves                            *)
(***************************************************************************)
\* what Get(key) returns after the last call, a Set that has returned
Stored == Get(heap, last.c, last.key, {}).v

\* C32: after Set(k, v, s) the Value at k has the flag s, so after
\* Set(k, "1", false) its AsInt succeeds
C32_SetStoresFlag ==
    last.op = "Set" /\ fault = "no"
        => /\ Stored.strict = last.strict
           /\ ~last.strict /\ last.value = StrP(<<"1">>) => AsInt(Stored).ok

\* the Value that the node owning the last part of key holds at it when
\* Set(key, ...) on c reaches it, the sub-trees on the way made as Set makes them
RECURSIVE HeldBefore(_, _, _)
HeldBefore(st, c, key) ==
    LET cut == Cut(key)
    IN  IF ~cut.found
        THEN IF key \in DOMAIN st.heap[c].config
             THEN [v |-> st.heap[c].config[key], ok |-> TRUE]
             ELSE [v |-> Value(Nil, FALSE), ok |-> FALSE]
        ELSE LET s1 == EnsureChild(st, c, cut.before, TRUE)
             IN  HeldBefore(s1, AsConfig(s1.heap[c].config[cut.before]).c, cut.after)

\* a Set call has returned in this step
SetReturns == last'.op = "Set" /\ steps' = steps + 1 /\ fault' = "no"

\* C32 as amended: after Set(k, v, s) the Value at k has the payload v, and
\* the flag s unless the node owning the last part of k held the payload v
\* at it when the call reached it: then the call has stored nothing and the
\* flag is the one held; AsInt succeeds on the Value if its flag is false and
\* its text is a number
C32_SetKeepsFlagOfSamePayload ==
    [][SetReturns
       => LET held == HeldBefore([heap |-> heap, configMap |-> configMap],
                                 last'.c, last'.key)
          IN  /\ Stored'.value = last'.value
              /\ Stored'.strict = (IF held.ok /\ IfaceEq(held.v.value, last'.value)
                                   THEN held.v.strict ELSE last'.strict)
              /\ AsInt(Stored').ok = (~Stored'.strict /\ last'.value = StrP(<<"1">>))]_vars

\* Set(k, "1", false) has returned, k having held "1" with the flag true
C32_Witness ==
    /\ last.op = "Set" /\ fault = "no"
    /\ last.value = StrP(<<"1">>) /\ ~last.strict
    /\ last.oldok /\ last.old = Value(StrP(<<"1">>), TRUE)
    /\ Stored.strict

(***************************************************************************)
(* The hooks that ReadMap runs                                             *)
(***************************************************************************)
\* the hooks that were handed the events: the node and the pattern of each
HooksRun(events) == {<<events[i].c, events[i].pattern>> : i \in DOMAIN events}

\* ReadMap({"a": {"b": v}}) on the root has returned in this step, the root
\* having a hook, and a.b has another payload than before
IngestChanges ==
    /\ last'.op = "ReadMap" /\ steps' = steps + 1 /\ fault' = "no"
    /\ DOMAIN heap[Root].hook # {}
    /\ LET g == Get(heap, Root, sAB, {})
       IN  ~(g.ok /\ IfaceEq(g.v.value, last'.arg[sA].v[sB]))

\* C33: ReadMap of {"a": {"b": v}} on a node runs the hook that Set("a.b", v,
\* strict) on the node would run, at each ingestion that changes a.b
C33_ReadMapNotifiesAsSet ==
    [][IngestChanges
       => \E x \in Set([heap |-> heap, configMap |-> configMap], Root, sAB,
                        last'.arg[sA].v[sB], last'.strict, {}) :
            /\ x.events # <<>>
            /\ HooksRun(x.events) = HooksRun(last'.events)]_vars

(***************************************************************************)
(* The events of concurrent Set calls                                      *)
(***************************************************************************)
\* C34: two goroutines that call Set(k, v, s) with the same v and s at the
\* same time have the hooks run at most once: no two events that follow
\* each other have the same New
C34_OneEventForOnePayload ==
    \A i \in 1..(Len(got) - 1) : got[i].New # got[i + 1].New

\* a hook is handed an event in this step
HookRuns == Len(got') = Len(got) + 1

\* C35: the Old of an event is the Value that the key held when the Set took
\* the lock it writes under, the zero Value if it held none
C35_OldIsHeldBefore ==
    [][HookRuns => got'[Len(got')].Old = (IF last.oldok THEN last.old ELSE ZeroValue)]_vars

(***************************************************************************)
(* The hooks that call back                                                *)
(***************************************************************************)
\* goroutine t waits for the lock of a node that it holds itself: no step
\* can release the lock, t never returns from its call
WaitsForItself(t) ==
    /\ stack[t] # <<>>
    /\ \/ Top(t).fn = "Get" /\ Top(t).at = "rlock"
       \/ Top(t).fn = "Set" /\ Top(t).at = "lock"
    /\ t \in WHeld(Top(t).c)

\* C36: Set returns when its hook calls Get, MustGet or Set on the node of
\* the hook: no goroutine waits for a lock that it holds itself
C36_CallbackReturns == \A t \in Threads : ~WaitsForItself(t)

(***************************************************************************)
(* The entries read and written under the lock                             *)
(***************************************************************************)
\* the nodes of the tree under c, c included
RECURSIVE TreeOf(_, _)
TreeOf(hp, c) ==
    {c} \cup UNION {TreeOf(hp, AsConfig(hp[c].config[k]).c) :
                      k \in {x \in DOMAIN hp[c].config : AsConfig(hp[c].config[x]).ok}}

\* the goroutines inside the loop of a ToMap that reads the entries of c
Scanning(c) ==
    {t \in Threads : stack[t] # <<>> /\ Top(t).fn = "ToMap" /\ c \in TreeOf(heap, Top(t).c)}

\* C38: the entries of a node are read and written with the lock of the node
\* held: no step of a Set writes the entries of a node while a ToMap is
\* inside its loop over them
C38_NoWriteDuringToMap ==
    [][\A c \in DOMAIN heap : heap'[c].config # heap[c].config => Scanning(c) = {}]_vars

(***************************************************************************)
(* The timers of a source                                                  *)
(***************************************************************************)
\* the timers of the source src of c that have neither expired nor been stopped
PendingOf(c, src) ==
    {t \in DOMAIN timers :
        timers[t].c = c /\ timers[t].src = src /\ timers[t].state = "pending"}

\* C40: a source of a node has at most one pending timer, and it is the one
\* that c.timerWatchers holds for the source
C40_OneTimerChain ==
    \A c \in Nodes, src \in {sENV, uGood} :
        /\ Cardinality(PendingOf(c, src)) <= 1
        /\ \A t \in PendingOf(c, src) :
              src \in DOMAIN heap[c].timerWatchers /\ heap[c].timerWatchers[src] = t

(***************************************************************************)
(* The watchers of a node                                                  *)
(***************************************************************************)
\* the watchers of c that are not closed, the goroutine of each running
LiveWatchers(c) ==
    {w \in DOMAIN watchers :
        watchers[w].c = c /\ ~watchers[w].closed /\ watchers[w].task # "exit"}

\* C39: a node has at most one watcher that is not closed, it is the one
\* c.watcher holds, which CloseWatcher closes, and watchFile adds the path to
\* a watcher that exists
C39_OneWatcher ==
    /\ fault # "panic"
    /\ \A c \in Nodes : LiveWatchers(c) \subseteq {heap[c].watcher}

(***************************************************************************)
(* The locks of a tree and of the registry                                 *)
(***************************************************************************)
\* goroutine t is inside a call and waits for a lock that it cannot have now
Blocked(t) ==
    /\ stack[t] # <<>>
    /\ \/ Top(t).fn = "Get" /\ Top(t).at = "rlock" /\ ~CanRLock(Top(t).c)
       \/ /\ Top(t).fn \in {"Set", "AddHook"} /\ Top(t).at \in {"lock", "locking"}
          /\ ~CanLock(Top(t).c)
       \/ Top(t).fn = "GetConfig" /\ Top(t).at = "grlock" /\ ~(GWHeld = {} /\ GWPending = {})
       \/ /\ Top(t).fn = "GetConfig" /\ Top(t).at \in {"gwlock", "gwlocking"}
          /\ ~(GRHeld = {} /\ GWHeld = {})

\* C37: concurrent Get, Set, AddHook, GetConfig and ReadMap calls on a tree,
\* the hooks not calling back, never all wait for each other: while a
\* goroutine is inside a call, one of those inside a call can go on
C37_NoDeadlock ==
    (\E t \in Threads : stack[t] # <<>>)
        => \E t \in Threads : stack[t] # <<>> /\ ~Blocked(t)

\* a Set called on the root holds the lock of the root and waits for the lock
\* of the node under it, which a Set called on that node holds
C37_Witness ==
    \E t, u \in Threads :
        /\ Len(stack[t]) >= 2 /\ stack[t][1].fn = "Set" /\ stack[t][1].c = Root
        /\ Blocked(t) /\ Top(t).fn = "Set" /\ Top(t).c # Root
        /\ stack[u] # <<>> /\ stack[u][1].fn = "Set" /\ stack[u][1].c = Top(t).c
        /\ u \in WHeld(Top(t).c)
        /\ stack[u][1].key = Top(t).key

====
